---------------------------- MODULE Spec2Model ----------------------------
(***************************************************************************)
(* Psychrometric property resolution of DesiGators                         *)
(* (src/src/psychrometric_chart.py) as driven by the calculator window     *)
(* (src/src/gui.py, calculate_clicked).                                    *)
(*                                                                         *)
(* Python floats are held as fixed-point integers:                         *)
(*   temperatures        in 1e-6 C          (25 C       = 25000000)        *)
(*   pressures           in 1e-3 Pa         (101325 Pa  = 101325000)       *)
(*   humidity ratio      in 1e-8 kg/kg      (0.0147     = 1470000)         *)
(*   relative humidity   in 1e-6            (1.0        = 1000000)         *)
(*   enthalpy            in 1e-6 kJ/kg      (50 kJ/kg   = 50000000)        *)
(*   specific volume     in 1e-8 m3/kg      (0.85       = 85000000)        *)
(*   specific heat       in 1e-8 kJ/(kg K)  (1.005      = 100500000)       *)
(* Every arithmetic result is rounded to the nearest unit, as a float      *)
(* operation rounds to the nearest float.  An optional field is the empty  *)
(* tuple (None) or a one-element tuple holding the value.  The keyword     *)
(* `density`, which __init__ stores and nothing reads, is left out.        *)
(***************************************************************************)
EXTENDS Integers, Sequences, FiniteSets, TLC

\* The calculator window; the main window's recording (the control flags the
\* worker threads poll, the two data buffers, the load cell array, the thread
\* pool with its runnables, the slot calls queued for the main thread, what
\* the main thread is doing, the number of read signals emitted so far); and
\* the load cell cache (the text of the file cache/load_cells.txt, the array
\* that is saved and the array that is loaded).
VARIABLES pc, kwargs, self, point_definable, exc, psy_point, output_box, ran, branch,
          solver, psychrometric_properties, other,
          controls, mass_data, rht_data, load_cell_array, threadpool, events,
          main_thread, reads,
          cache, saved, loaded

Persistence == <<cache, saved, loaded>>

Recording == <<controls, mass_data, rht_data, load_cell_array, threadpool, events,
               main_thread, reads>>

vars == <<pc, kwargs, self, point_definable, exc, psy_point, output_box, ran, branch,
          solver, psychrometric_properties, other, Recording, Persistence>>

None == << >>

Some(v) == << v >>

\* The value held by a field that is not None.
V(x) == x[1]

Abs(x) == IF x < 0 THEN -x ELSE x

Sgn(x) == IF x < 0 THEN -1 ELSE 1

\* The largest magnitude an arithmetic result is held with; a larger one is
\* held as this one.
MaxMagnitude == 1000000000

\* a / b rounded to the nearest integer (b # 0).
RDiv(a, b) == Sgn(a) * Sgn(b) * ((Abs(a) + Abs(b) \div 2) \div Abs(b))

\* <<quotient, remainder>> of (r * b) by c for 0 <= r < c and 0 <= b, one
\* base-d digit of b at a time so that no intermediate product leaves the
\* 32-bit integers of the model checker ((2 * d - 1) * c < 2^31).
RECURSIVE MulDivDigits(_, _, _, _)
MulDivDigits(r, b, c, d) ==
  IF b = 0 THEN <<0, 0>>
  ELSE LET hi == MulDivDigits(r, b \div d, c, d)
           t  == hi[2] * d + r * (b % d)
       IN  <<hi[1] * d + t \div c, t % c>>

\* The base of the digits for the divisor c.
DigitBase(c) ==
  IF c < 4000000 THEN 256
  ELSE IF c < 60000000 THEN 16
  ELSE IF c < 268435456 THEN 4 ELSE 2

\* a * b is a multiple of c (c # 0): the quotient a * b / c is held exactly.
Exact(a, b, c) ==
  MulDivDigits(Abs(a) % Abs(c), Abs(b), Abs(c), DigitBase(Abs(c)))[2] = 0

\* The quotient of <<quotient, remainder>> rounded to the nearest integer.
Rounded(qr, c) == qr[1] + (IF 2 * qr[2] >= c THEN 1 ELSE 0)

\* a * b / c rounded, for a, b >= 0 and c > 0, held as MaxMagnitude when it
\* is larger.
MulDivLong(a, b, c) ==
  IF a \div c > 0 /\ b > MaxMagnitude \div (a \div c + 1)
  THEN MaxMagnitude
  ELSE (a \div c) * b + Rounded(MulDivDigits(a % c, b, c, DigitBase(c)), c)

\* a * b / c rounded to the nearest integer (c # 0, |c| < 7 * 10^8).
MulDiv(a, b, c) ==
  IF a = 0 \/ Abs(b) <= 2000000000 \div Abs(a) THEN RDiv(a * b, c)
  ELSE Sgn(a) * Sgn(b) * Sgn(c) * MulDivLong(Abs(a), Abs(b), Abs(c))

\* find_p_saturation [1e-3 Pa], deriv_p_saturation [1e-3 Pa/C] and the first
\* term of t_dew_point_step's gradient divided by find_p_saturation ** 2
\* [1e-7 / C], evaluated at the whole degrees from -104 C to 120 C.
PSatTab ==
  << 81, 36, 25, 21, 19, 19, 19, 20, 21, 23,
     25, 28, 31, 35, 39, 44, 51, 58, 66, 75,
     86, 98, 113, 129, 148, 170, 195, 223, 256, 293,
     335, 383, 438, 500, 571, 650, 741, 843, 959, 1089,
     1236, 1402, 1588, 1796, 2031, 2294, 2588, 2916, 3284, 3694,
     4150, 4659, 5225, 5854, 6552, 7326, 8183, 9132, 10180, 11339,
     12617, 14026, 15578, 17285, 19162, 21224, 23485, 25964, 28680, 31652,
     34901, 38450, 42324, 46549, 51152, 56165, 61618, 67545, 73983, 80971,
     88548, 96759, 105651, 115271, 125673, 136912, 149045, 162136, 176249, 191454,
     207824, 225437, 244374, 264720, 286568, 310012, 335152, 362095, 390952, 421839,
     454880, 490202, 527942, 568240, 611245, 657113, 706006, 758095, 813558, 872579,
     935355, 1002087, 1072988, 1148278, 1228188, 1312957, 1402836, 1498084, 1598972, 1705782,
     1818808, 1938352, 2064731, 2198274, 2339321, 2488225, 2645353, 2811085, 2985815, 3169950,
     3363912, 3568139, 3783083, 4009210, 4247004, 4496965, 4759608, 5035466, 5325089, 5629044,
     5947917, 6282310, 6632847, 7000168, 7384933, 7787822, 8209536, 8650794, 9112337, 9594928,
     10099350, 10626408, 11176929, 11751764, 12351784, 12977885, 13630986, 14312030, 15021985, 15761841,
     16532615, 17335349, 18171109, 19040988, 19946104, 20887604, 21866658, 22884466, 23942253, 25041275,
     26182811, 27368174, 28598700, 29875757, 31200741, 32575078, 34000223, 35477661, 37008907, 38595506,
     40239035, 41941099, 43703337, 45527417, 47415041, 49367940, 51387878, 53476652, 55636090, 57868052,
     60174433, 62557157, 65018186, 67559511, 70183157, 72891184, 75685685, 78568785, 81542644, 84609457,
     87771451, 91030889, 94390066, 97851313, 101416995, 105089511, 108871294, 112764813, 116772570, 120897104,
     125140984, 129506819, 133997249, 138614949, 143362631, 148243039, 153258953, 158413187, 163708589, 169148043,
     174734466, 180470810, 186360062, 192405241, 198609402 >>

DPSatTab ==
  << -105, -18, -6, -3, -1, 0, 1, 1, 2, 2,
     2, 3, 4, 4, 5, 6, 7, 8, 9, 10,
     12, 13, 15, 18, 20, 23, 27, 30, 35, 40,
     45, 51, 58, 66, 75, 85, 96, 109, 123, 138,
     156, 175, 197, 221, 248, 278, 311, 347, 388, 433,
     482, 536, 596, 662, 735, 814, 902, 997, 1102, 1217,
     1342, 1478, 1627, 1790, 1966, 2159, 2367, 2594, 2840, 3107,
     3395, 3707, 4045, 4409, 4803, 5227, 5684, 6177, 6706, 7275,
     7887, 8543, 9248, 10002, 10811, 11676, 12601, 13591, 14647, 15775,
     16978, 18261, 19627, 21082, 22629, 24275, 26024, 27881, 29852, 31943,
     34159, 36508, 38995, 41627, 44410, 47353, 50462, 53745, 57210, 60866,
     64719, 68781, 73058, 77561, 82299, 87281, 92519, 98022, 103802, 109868,
     116233, 122908, 129905, 137237, 144916, 152954, 161366, 170164, 179363, 188977,
     199021, 209508, 220456, 231879, 243793, 256215, 269160, 282647, 296693, 311315,
     326531, 342360, 358820, 375931, 393712, 412183, 431364, 451276, 471938, 493374,
     515604, 538650, 562534, 587280, 612909, 639446, 666914, 695336, 724738, 755144,
     786578, 819067, 852635, 887309, 923115, 960079, 998229, 1037591, 1078193, 1120063,
     1163229, 1207719, 1253561, 1300786, 1349421, 1399496, 1451042, 1504087, 1558662, 1614799,
     1672526, 1731875, 1792878, 1855566, 1919970, 1986122, 2054054, 2123798, 2195387, 2268853,
     2344229, 2421548, 2500842, 2582145, 2665491, 2750912, 2838443, 2928117, 3019968, 3114029,
     3210336, 3308922, 3409821, 3513067, 3618696, 3726741, 3837237, 3950218, 4065720, 4183775,
     4304420, 4427689, 4553616, 4682237, 4813585, 4947695, 5084602, 5224340, 5366945, 5512449,
     5660889, 5812297, 5966709, 6124158, 6284679 >>

SquareGradientTab ==
  << -26119312, -10333055, -5124813, -2559743, -1050917, -69392, 611496, 1105054, 1474213, 1756714,
     1976562, 2149745, 2287321, 2397181, 2485101, 2555405, 2611392, 2655624, 2690115, 2716472,
     2735991, 2749729, 2758552, 2763181, 2764217, 2762165, 2757452, 2750443, 2741449, 2730736,
     2718535, 2705045, 2690441, 2674873, 2658474, 2641359, 2623632, 2605381, 2586687, 2567619,
     2548240, 2528605, 2508763, 2488758, 2468629, 2448411, 2428134, 2407826, 2387512, 2367214,
     2346952, 2326742, 2306601, 2286542, 2266579, 2246721, 2226980, 2207362, 2187877, 2168531,
     2149330, 2130278, 2111382, 2092644, 2074067, 2055656, 2037411, 2019336, 2001432, 1983700,
     1966140, 1948755, 1931544, 1914507, 1897645, 1880957, 1864443, 1848103, 1831935, 1815940,
     1800116, 1784462, 1768977, 1753661, 1738511, 1723527, 1708707, 1694050, 1679555, 1665219,
     1651042, 1637022, 1623157, 1609446, 1595887, 1582479, 1569220, 1556108, 1543142, 1530319,
     1517640, 1505100, 1492701, 1480438, 1468311, 1456319, 1444459, 1432730, 1421131, 1409659,
     1398314, 1387093, 1375995, 1365019, 1354163, 1343425, 1332805, 1322300, 1311908, 1301630,
     1291463, 1281405, 1271456, 1261614, 1251877, 1242245, 1232716, 1223288, 1213960, 1204731,
     1195600, 1186566, 1177626, 1168781, 1160028, 1151367, 1142797, 1134315, 1125922, 1117616,
     1109395, 1101259, 1093207, 1085238, 1077350, 1069542, 1061814, 1054165, 1046593, 1039097,
     1031677, 1024332, 1017060, 1009861, 1002733, 995677, 988690, 981773, 974924, 968142,
     961427, 954777, 948193, 941672, 935215, 928820, 922488, 916216, 910004, 903852,
     897759, 891724, 885746, 879825, 873960, 868150, 862395, 856694, 851046, 845451,
     839908, 834416, 828975, 823585, 818244, 812952, 807709, 802513, 797365, 792264,
     787209, 782200, 777235, 772316, 767440, 762609, 757820, 753074, 748370, 743708,
     739086, 734506, 729966, 725465, 721004, 716582, 712198, 707852, 703544, 699273,
     695039, 690841, 686679, 682553, 678462, 674405, 670383, 666395, 662441, 658519,
     654631, 650775, 646952, 643160, 639400 >>

\* The temperatures the tables cover.
InTable(t) == -104000000 <= t /\ t < 120000000

\* Linear interpolation between the two whole degrees around t.
Interpolate(tab, t) ==
  LET i == ((t + 104000000) \div 1000000) + 1
  IN  tab[i] + MulDiv(tab[i + 1] - tab[i], (t + 104000000) % 1000000, 1000000)

find_p_saturation(air_temp) == Interpolate(PSatTab, air_temp)

deriv_p_saturation(T) == Interpolate(DPSatTab, T)

Fields ==
  { "dry_bulb_temperature", "wet_bulb_temperature", "dew_point_temperature",
    "total_pressure", "humidity_ratio", "relative_humidity", "total_enthalpy",
    "partial_pressure_vapor", "specific_volume", "specific_heat_capacity" }

\* The number of entries of a list of fields that are not None.
CountKnown(props) == Cardinality({i \in DOMAIN props : props[i] # None})

\* check_definable without the discount for equivalent properties.
check_definable_no_redundancy(s) ==
  LET all_known ==
        CountKnown(<< s.dry_bulb_temperature, s.wet_bulb_temperature,
                      s.dew_point_temperature, s.humidity_ratio,
                      s.relative_humidity, s.total_enthalpy,
                      s.partial_pressure_vapor, s.specific_volume,
                      s.specific_heat_capacity >>)
      paired ==
        IF s.wet_bulb_temperature # None /\ s.total_enthalpy # None
        THEN all_known - 1 ELSE all_known
  IN  s.total_pressure # None /\ paired >= 2

\* check_definable with `num_properties_known == 2` as its second criterion.
check_definable_exactly_two(s) ==
  LET all_known ==
        CountKnown(<< s.dry_bulb_temperature, s.wet_bulb_temperature,
                      s.dew_point_temperature, s.humidity_ratio,
                      s.relative_humidity, s.total_enthalpy,
                      s.partial_pressure_vapor, s.specific_volume,
                      s.specific_heat_capacity >>)
      paired ==
        IF s.wet_bulb_temperature # None /\ s.total_enthalpy # None
        THEN all_known - 1 ELSE all_known
      equivalent ==
        CountKnown(<< s.humidity_ratio, s.partial_pressure_vapor,
                      s.dew_point_temperature, s.specific_heat_capacity >>) - 1
      num_redundancies == IF equivalent = -1 THEN 0 ELSE equivalent
  IN  s.total_pressure # None /\ paired - num_redundancies = 2

check_definable(s) ==
  LET criterion_1 == s.total_pressure # None
      all_known ==
        CountKnown(<< s.dry_bulb_temperature, s.wet_bulb_temperature,
                      s.dew_point_temperature, s.humidity_ratio,
                      s.relative_humidity, s.total_enthalpy,
                      s.partial_pressure_vapor, s.specific_volume,
                      s.specific_heat_capacity >>)
      paired ==
        IF s.wet_bulb_temperature # None /\ s.total_enthalpy # None
        THEN all_known - 1 ELSE all_known
      equivalent ==
        CountKnown(<< s.humidity_ratio, s.partial_pressure_vapor,
                      s.dew_point_temperature, s.specific_heat_capacity >>) - 1
      num_redundancies == IF equivalent = -1 THEN 0 ELSE equivalent
      num_properties_known == paired - num_redundancies
      criterion_2 == num_properties_known >= 2
  IN  criterion_1 /\ criterion_2

NoException == [kind |-> "none", text |-> "", arg |-> None]

InvalidParamsException(text, arg) ==
  [kind |-> "InvalidParamsException", text |-> text, arg |-> arg]

PointNotDefinedException ==
  [kind |-> "PointNotDefinedException",
   text |-> "Not enough information provided to fully define the point.",
   arg |-> None]

\* Any exception the engine does not define itself (ValueError,
\* ZeroDivisionError, TypeError).
BuiltinException(kind) == [kind |-> kind, text |-> "", arg |-> None]

\* A bound that excludes the value equal to it.
Exceeds_or_equals(value, bound) == value >= bound

\* The comparison of every check of check_validity: `value > bound`.
Exceeds(value, bound) == value > bound

\* The outcome of a computation: a value, or the exception it raises.
Ok(v) == [err |-> "none", val |-> v]

Err(kind) == [err |-> kind, val |-> 0]

\* a * b / c as Python computes it: ZeroDivisionError when c is 0.
Quot(a, b, c) == IF c = 0 THEN Err("ZeroDivisionError") ELSE Ok(MulDiv(a, b, c))

\* 18.02 / 28.97 * p_vapor / (p_total - p_vapor)
find_humidity_ratio(p_vapor, p_total) ==
  Quot(62202278, p_vapor, p_total - p_vapor)

find_saturation_humidity_ratio(air_temp, p_total) ==
  find_humidity_ratio(find_p_saturation(air_temp), p_total)

\* The messages with that of the first check pasted into the second.
Message_pasted(i) ==
  CASE i \in {1, 2} -> "Dry bulb temperature must be greater than or equal to wet bulb temperature."
    [] i = 3 -> "Wet bulb temperature must be greater than or equal to dew point temperature."
    [] i = 4 -> "Relative humidity cannot exceed a value of 100%"
    [] i = 5 -> "Humidity ratio supplied cannot exceed saturation humidity ratio at the given temperature: {H_sat = %f}"
    [] i = 6 -> "Vapor Pressure of water supplied is greater than the saturation vapor pressure at the given temperature: {P_sat = %f}"

\* The message of the i-th check of check_validity, before `%` fills in %f.
Message(i) ==
  CASE i = 1 -> "Dry bulb temperature must be greater than or equal to wet bulb temperature."
    [] i = 2 -> "Dry bulb temperature must be greater than or equal to dew point temperature."
    [] i = 3 -> "Wet bulb temperature must be greater than or equal to dew point temperature."
    [] i = 4 -> "Relative humidity cannot exceed a value of 100%"
    [] i = 5 -> "Humidity ratio supplied cannot exceed saturation humidity ratio at the given temperature: {H_sat = %f}"
    [] i = 6 -> "Vapor Pressure of water supplied is greater than the saturation vapor pressure at the given temperature: {P_sat = %f}"

\* `"%f" % x`: x with six decimals, for a value held in 1/per_one.
PercentF(x, per_one) ==
  IF per_one > 1000000
  THEN RDiv(x, per_one \div 1000000) * (per_one \div 1000000)
  ELSE x

\* check_validity with the dew point compared with the dry bulb only.
ordering_check_dry_bulb_only(s) ==
  LET db == s.dry_bulb_temperature
      wb == s.wet_bulb_temperature
      dp == s.dew_point_temperature
  IN  IF db # None /\ wb # None /\ Exceeds(V(wb), V(db))
      THEN InvalidParamsException(Message(1), None)
      ELSE IF db # None /\ dp # None /\ Exceeds(V(dp), V(db))
      THEN InvalidParamsException(Message(2), None)
      ELSE NoException

\* check_validity, its three comparisons of temperatures: the exception of
\* the first that fails, or NoException.
ordering_check(s) ==
  LET db == s.dry_bulb_temperature
      wb == s.wet_bulb_temperature
      dp == s.dew_point_temperature
  IN  IF db # None /\ wb # None /\ Exceeds(V(wb), V(db))
      THEN InvalidParamsException(Message(1), None)
      ELSE IF db # None /\ dp # None /\ Exceeds(V(dp), V(db))
      THEN InvalidParamsException(Message(2), None)
      ELSE IF wb # None /\ dp # None /\ Exceeds(V(dp), V(wb))
      THEN InvalidParamsException(Message(3), None)
      ELSE NoException

\* The relative humidity compared with 100, the number of the input box.
relative_humidity_check_percent(s) ==
  IF s.relative_humidity # None /\ Exceeds(V(s.relative_humidity), 100000000)
  THEN InvalidParamsException(Message(4), None)
  ELSE NoException

\* check_validity: `if self.relative_humidity > 1`.
relative_humidity_check(s) ==
  IF s.relative_humidity # None /\ Exceeds(V(s.relative_humidity), 1000000)
  THEN InvalidParamsException(Message(4), None)
  ELSE NoException

\* check_validity: the humidity ratio against the saturation humidity ratio,
\* which is evaluated only when its three operands are known.
humidity_ratio_check(s) ==
  LET h_sat == find_saturation_humidity_ratio(V(s.dry_bulb_temperature), V(s.total_pressure))
  IN  IF s.humidity_ratio # None /\ s.dry_bulb_temperature # None /\ s.total_pressure # None
      THEN IF h_sat.err # "none" THEN BuiltinException(h_sat.err)
           ELSE IF Exceeds(V(s.humidity_ratio), h_sat.val)
           THEN InvalidParamsException(Message(5), Some(PercentF(h_sat.val, 100000000)))
           ELSE NoException
      ELSE NoException

\* The vapor pressure compared with the total pressure.
vapor_pressure_check_total_pressure(s) ==
  IF /\ s.partial_pressure_vapor # None /\ s.dry_bulb_temperature # None
     /\ s.total_pressure # None
     /\ Exceeds(V(s.partial_pressure_vapor), V(s.total_pressure))
  THEN InvalidParamsException(Message(6), Some(PercentF(V(s.total_pressure), 1000)))
  ELSE NoException

\* check_validity: the vapor pressure against the saturation pressure at the
\* dry bulb temperature.
vapor_pressure_check(s) ==
  LET p_sat == find_p_saturation(V(s.dry_bulb_temperature))
  IN  IF /\ s.partial_pressure_vapor # None /\ s.dry_bulb_temperature # None
         /\ Exceeds(V(s.partial_pressure_vapor), p_sat)
      THEN InvalidParamsException(Message(6), Some(PercentF(p_sat, 1000)))
      ELSE NoException

\* check_validity: the exception of the first check that fails, or
\* NoException.
check_validity(s) ==
  CASE ordering_check(s) # NoException -> ordering_check(s)
    [] OTHER ->
  CASE relative_humidity_check(s) # NoException -> relative_humidity_check(s)
    [] OTHER ->
  CASE humidity_ratio_check(s) # NoException -> humidity_ratio_check(s)
    [] OTHER -> vapor_pressure_check(s)

\* 1.005 + 1.88 * humidity_ratio
find_specific_heat(humidity_ratio) == 100500000 + MulDiv(188, humidity_ratio, 100)

\* (specific_heat_capacity - 1.005) / 1.88
find_humidity_ratio_from_cp(specific_heat_capacity) ==
  MulDiv(specific_heat_capacity - 100500000, 100, 188)

\* (1.005 + 1.88 * humidity_ratio) * air_temp + 2501.4 * humidity_ratio
find_total_enthalpy(air_temp, humidity_ratio) ==
  MulDiv(find_specific_heat(humidity_ratio), air_temp, 100000000)
    + MulDiv(25014, humidity_ratio, 1000)

\* 18.02 / 28.97 * P_tot * deriv_p_saturation(T) / (P_tot - find_p_saturation(T)) ** 2,
\* in 1e-8 kg/kg per C.
deriv_h_sat(T, P_tot) ==
  LET D == P_tot - find_p_saturation(T)
      q == Quot(62202278, P_tot, D)
  IN  IF q.err # "none" THEN q ELSE Quot(q.val, deriv_p_saturation(T), D)

\* ValueError unless 0 <= relative_humidity <= 1; then the humidity ratio at
\* the vapor pressure relative_humidity * find_p_saturation(air_temp).
find_humidity_ratio_from_RH_temp(relative_humidity, air_temp, p_total) ==
  IF relative_humidity > 1000000 \/ relative_humidity < 0
  THEN Err("ValueError")
  ELSE find_humidity_ratio(
         MulDiv(relative_humidity, find_p_saturation(air_temp), 1000000), p_total)

\* (enthalpy - 1.005 * air_temp) / (1.88 * air_temp + 2501.4)
find_humidity_ratio_from_enthalpy_db(air_temp, enthalpy) ==
  Quot(enthalpy - MulDiv(1005, air_temp, 1000), 1000000,
       MulDiv(188, air_temp, 10000) + 25014000)

\* 28.97 * humidity_ratio * p_total / (18.02 + 28.97 * humidity_ratio)
find_p_water_vapor_from_humidity_ratio(humidity_ratio, p_total) ==
  Quot(humidity_ratio, p_total, 62202278 + humidity_ratio)

\* rh = p_vapor / find_p_saturation(air_temp); ValueError when rh > 1.
find_relative_humidity(p_vapor, air_temp) ==
  LET p_sat == find_p_saturation(air_temp)
  IN  IF p_sat = 0 THEN Err("ZeroDivisionError")
      ELSE IF p_vapor > p_sat THEN Err("ValueError")
      ELSE Ok(MulDiv(p_vapor, 1000000, p_sat))

find_p_water_vapor_from_dew_point(dew_point_temperature) ==
  find_p_saturation(dew_point_temperature)

\* R_dry_air + R_water_vapor * humidity_ratio = 287.052874 + 461.520 * humidity_ratio,
\* in 1e-5 J/(kg K).
GasConstant(humidity_ratio) == 28705287 + MulDiv(46152, humidity_ratio, 100000)

\* air_temp + 273.15
temp_K(air_temp) == air_temp + 273150000

\* (R_a + R_w * humidity_ratio) * temp_K with R_a, R_w divided by total_pressure
find_specific_volume(humidity_ratio, air_temp, total_pressure) ==
  Quot(GasConstant(humidity_ratio), temp_K(air_temp), total_pressure)

\* (specific_volume / temp_K - R_a) / R_w
find_humidity_ratio_from_specific_vol_and_temp(specific_volume, air_temp, total_pressure) ==
  LET q == Quot(10 * specific_volume, total_pressure, temp_K(air_temp))
  IN  IF q.err # "none" THEN q ELSE Ok(MulDiv(q.val - 287052874, 10000, 46152))

\* (enthalpy - 2501.4 * humidity_ratio) / (1.005 + 1.88 * humidity_ratio)
find_dry_bulb_temperature(enthalpy, humidity_ratio) ==
  Quot(enthalpy - MulDiv(25014, humidity_ratio, 1000), 100000000,
       find_specific_heat(humidity_ratio))

\* specific_vol * p_total / (287.052874 + 461.520 * humidity_ratio) - 273.15
find_dry_bulb_temperature_specific_vol_H(specific_vol, humidity_ratio, p_total) ==
  LET q == Quot(specific_vol, p_total, GasConstant(humidity_ratio))
  IN  IF q.err # "none" THEN q ELSE Ok(q.val - 273150000)

\* The solvers' default arguments: precision = 5 and trial_temp = 50 C.
precision == 5

trial_temp == 50000000

\* The most steps one solver call is followed for; a call that needs more
\* is one that does not return.
MaxIter == 300

RECURSIVE TenPow(_)
TenPow(n) == IF n = 0 THEN 1 ELSE 10 * TenPow(n - 1)

\* The loop condition with `>=`.
StepTooLarge_or_equal(t_next, t_prev) ==
  Abs(t_next - t_prev) >= 1000000 \div TenPow(precision)

\* abs(t_next - trial_temp) > 10 ** (-precision), one degree being 10^6.
StepTooLarge(t_next, t_prev) == Abs(t_next - t_prev) > 1000000 \div TenPow(precision)

\* difference_squared = (find_p_saturation(t_prev) - p_vapor) ** 2 and
\* gradient = first - 2 * p_vapor * deriv_p_saturation(t_prev), where first is
\* the term the code writes with the constants 68.998 and 9849.88 (held in
\* SquareGradientTab as a multiple of p_sat ** 2).  Both are divided by M to
\* stay within the integers.
t_dew_point_step(t_prev, p_vapor) ==
  LET p_sat == find_p_saturation(t_prev)
      f     == p_sat - p_vapor
      M     == IF Abs(p_sat) >= Abs(p_vapor) THEN Abs(p_sat) + 1 ELSE Abs(p_vapor) + 1
      first == MulDiv(p_sat, MulDiv(p_sat, Interpolate(SquareGradientTab, t_prev), 10000000), M)
      gradient == first - 2 * MulDiv(p_vapor, deriv_p_saturation(t_prev), M)
  IN  IF gradient = 0 THEN Err("ZeroDivisionError")
      ELSE Ok(t_prev - MulDiv(MulDiv(f, 1000000, gradient), f, M))

\* The body shared by the three solver loops: t_next is the step from
\* trial; the loop goes on while the step is too large and returns trial
\* (not t_next) when it is not.  Below -105 C find_p_saturation is complex
\* and the exp of the following step raises TypeError; iterates that leave
\* the tables upwards grow until exp raises OverflowError.
LoopExit(trial, t_next) ==
  IF t_next.err # "none" THEN t_next
  ELSE IF ~StepTooLarge(t_next.val, trial) THEN Ok(trial)
  ELSE IF t_next.val < -104000000 THEN Err("TypeError")
  ELSE IF ~InTable(t_next.val) THEN Err("OverflowError")
  ELSE [err |-> "again", val |-> t_next.val]

\* The loop state before the first step, and what a loop that has used up
\* its steps comes to.
Start(trial) == [err |-> "again", val |-> trial]

Finish(st) == IF st.err = "again" THEN Err("NoConvergence") ELSE st

\* At most n passes of the while loop from the loop state st (the first
\* half of them, then the rest).
RECURSIVE DewPointLoop(_, _, _)
DewPointLoop(st, p_vapor, n) ==
  IF st.err # "again" THEN st
  ELSE IF n = 1 THEN LoopExit(st.val, t_dew_point_step(st.val, p_vapor))
  ELSE DewPointLoop(DewPointLoop(st, p_vapor, n \div 2), p_vapor, n - n \div 2)

find_dew_point_temperature(p_vapor) ==
  Finish(DewPointLoop(Start(trial_temp), p_vapor, MaxIter))

find_dry_bulb_temperature_RH_p_vapor(relative_humidity, p_vapor) ==
  find_dew_point_temperature(MulDiv(p_vapor, relative_humidity, 1000000))

\* difference = 1.005 t + (1.88 t + 2501.4) * RH * p_sat / (P - RH * p_sat) - H
\* and gradient = 2 * difference * d(difference)/dt; the step is
\* difference ** 2 / gradient, a division by zero when the difference is
\* exactly 0 (a difference that only rounds to 0 gives a step of 0).
t_dry_bulb_step(t_prev, relative_humidity, total_enthalpy, total_pressure) ==
  LET p_v  == MulDiv(relative_humidity, find_p_saturation(t_prev), 1000000)
      D    == total_pressure - p_v
      X    == MulDiv(188, t_prev, 1000) + 250140000
      rs   == MulDiv(relative_humidity, deriv_p_saturation(t_prev), 1000000)
      f    == MulDiv(1005, t_prev, 1000) + MulDiv(X, 10 * p_v, D) - total_enthalpy
      zero == f = 0 /\ Exact(1005, t_prev, 1000) /\ Exact(X, 10 * p_v, D)
      fp   == 1005000 + MulDiv(MulDiv(X, 10 * rs, D), total_pressure, D)
                + MulDiv(1880000, p_v, D)
  IN  IF D = 0 THEN Err("ZeroDivisionError")
      ELSE IF zero \/ fp = 0 THEN Err("ZeroDivisionError")
      ELSE Ok(t_prev - MulDiv(f, 500000, fp))

RECURSIVE DryBulbLoop(_, _, _, _, _)
DryBulbLoop(st, relative_humidity, total_enthalpy, total_pressure, n) ==
  IF st.err # "again" THEN st
  ELSE IF n = 1
  THEN LoopExit(st.val, t_dry_bulb_step(st.val, relative_humidity, total_enthalpy,
                                        total_pressure))
  ELSE DryBulbLoop(DryBulbLoop(st, relative_humidity, total_enthalpy,
                               total_pressure, n \div 2),
                   relative_humidity, total_enthalpy, total_pressure, n - n \div 2)

find_dry_bulb_temperature_RH_enthalpy(relative_humidity, total_enthalpy, total_pressure) ==
  Finish(DryBulbLoop(Start(trial_temp), relative_humidity, total_enthalpy,
                     total_pressure, MaxIter))

\* difference = (H - 2501.4 W_sat) / (1.005 + 1.88 W_sat) - t and
\* gradient = 2 * difference * (-(2513.907 + 1.88 H) * deriv_h_sat / (1.005 + 1.88 W_sat) ** 2);
\* the step is difference ** 2 / gradient.
t_wet_bulb_step(t_prev, enthalpy, total_pressure) ==
  LET S   == find_saturation_humidity_ratio(t_prev, total_pressure)
      cp  == find_specific_heat(S.val)
      T   == find_dry_bulb_temperature(enthalpy, S.val)
      dh  == deriv_h_sat(t_prev, total_pressure)
      A   == 25139070 + MulDiv(188, enthalpy, 10000)
      G   == MulDiv(MulDiv(A, dh.val, cp), 100000000, cp)
      f   == T.val - t_prev
      zero == f = 0 /\ Exact(enthalpy - MulDiv(25014, S.val, 1000), 100000000, cp)
  IN  IF S.err # "none" THEN S
      ELSE IF T.err # "none" THEN T
      ELSE IF dh.err # "none" THEN dh
      ELSE IF zero \/ G = 0 THEN Err("ZeroDivisionError")
      ELSE Ok(t_prev + MulDiv(f, 5000, G))

RECURSIVE WetBulbLoop(_, _, _, _)
WetBulbLoop(st, total_enthalpy, total_pressure, n) ==
  IF st.err # "again" THEN st
  ELSE IF n = 1
  THEN LoopExit(st.val, t_wet_bulb_step(st.val, total_enthalpy, total_pressure))
  ELSE WetBulbLoop(WetBulbLoop(st, total_enthalpy, total_pressure, n \div 2),
                   total_enthalpy, total_pressure, n - n \div 2)

find_wet_bulb_temperature(total_enthalpy, total_pressure) ==
  Finish(WetBulbLoop(Start(trial_temp), total_enthalpy, total_pressure, MaxIter))

\* The least s in lo..hi with (s - b) * (s + b) / 1e8 >= x.
RECURSIVE RootSearch(_, _, _, _)
RootSearch(lo, hi, b, x) ==
  IF lo >= hi THEN lo
  ELSE LET mid == (lo + hi) \div 2
       IN  IF MulDiv(mid - b, mid + b, 100000000) >= x
           THEN RootSearch(lo, mid, b, x)
           ELSE RootSearch(mid + 1, hi, b, x)

\* A = -917445.4546, B = -443931.5841 + 461.520 H - 1.88 P v (in 1e-2) and
\* C = 78800.535 + 287.052874 H - 1.005 P v (in 1e-3), as <<B, C>>.
QuadraticCoefficients(enthalpy, Pv) ==
  << -44393158 + MulDiv(46152, enthalpy, 1000000) - MulDiv(188, Pv, 1000),
     78800535 + MulDiv(28705287, enthalpy, 100000000) - MulDiv(1005, Pv, 1000) >>

\* sqrt(beta^2 + x); the square root of an exact square is exact.
QuadraticSqrt(beta, x) ==
  IF x = 0 THEN Abs(beta) ELSE RootSearch(0, 400000000, Abs(beta), x)

\* The roots (-B +- sqrt(B^2 - 4AC)) / 2A, taken of W^2 + beta W + gamma
\* with beta = B / A and gamma = C / A: solution_1 = (-beta - s) / 2 and
\* solution_2 = (-beta + s) / 2 with s = sqrt(beta^2 - 4 gamma); sqrt of a
\* negative number is a ValueError.
QuadraticRoots(beta, x, s) ==
  IF MulDiv(Abs(beta), Abs(beta), 100000000) + x < 0
  THEN [err |-> "ValueError", solution_1 |-> 0, solution_2 |-> 0]
  ELSE [err |-> "none", solution_1 |-> RDiv(-beta - s, 2), solution_2 |-> RDiv(-beta + s, 2)]

Solutions(B, C) ==
  QuadraticRoots(-MulDiv(B, 100000000, 91744545),
                 4 * MulDiv(C, 10000000, 91744545),
                 QuadraticSqrt(-MulDiv(B, 100000000, 91744545),
                               4 * MulDiv(C, 10000000, 91744545)))

\* `if solution_2 < 0 < solution_1 ... elif solution_1 < 0 < solution_2 ...
\* else: raise ValueError`.
SelectSolution(r) ==
  IF r.err # "none" THEN Err(r.err)
  ELSE IF r.solution_2 < 0 /\ 0 < r.solution_1 THEN Ok(r.solution_1)
  ELSE IF r.solution_1 < 0 /\ 0 < r.solution_2 THEN Ok(r.solution_2)
  ELSE Err("ValueError")

FromCoefficients(c) == SelectSolution(Solutions(c[1], c[2]))

find_humidity_ratio_from_enthalpy_specific_vol(enthalpy, specific_vol, p_total) ==
  FromCoefficients(QuadraticCoefficients(enthalpy, MulDiv(p_total, specific_vol, 100000000)))

\* Case reductions 1-4 of define_point, one conditional assignment each, and
\* the assignments of the eleven case branches in the order of the source.
\* A step is the field assigned and the outcome of the right-hand side; the
\* field "" is a step whose condition is false.
Skip == [field |-> "", res |-> Ok(0)]

Set(field, res) == [field |-> field, res |-> res]

\* The case reductions without reduction 3b (humidity ratio to partial
\* pressure of vapor).
ReductionStep_without_3b(i, s) ==
  LET P == V(s.total_pressure)
  IN  CASE i = 1 ->
             IF s.specific_heat_capacity # None
             THEN Set("humidity_ratio",
                      Ok(find_humidity_ratio_from_cp(V(s.specific_heat_capacity))))
             ELSE Skip
        [] i = 2 ->
             IF s.dew_point_temperature # None
             THEN Set("partial_pressure_vapor",
                      Ok(find_p_water_vapor_from_dew_point(V(s.dew_point_temperature))))
             ELSE Skip
        [] i = 3 ->
             IF s.partial_pressure_vapor # None
             THEN Set("humidity_ratio",
                      find_humidity_ratio(V(s.partial_pressure_vapor), P))
             ELSE Skip
        [] i = 4 ->
             IF s.total_enthalpy # None
             THEN Set("wet_bulb_temperature",
                      find_wet_bulb_temperature(V(s.total_enthalpy), P))
             ELSE IF s.wet_bulb_temperature # None
             THEN Set("total_enthalpy",
                      LET w == find_saturation_humidity_ratio(V(s.wet_bulb_temperature), P)
                      IN  IF w.err # "none" THEN w
                          ELSE Ok(find_total_enthalpy(V(s.wet_bulb_temperature), w.val)))
             ELSE Skip

\* The case reductions without reduction 4a (total enthalpy to wet bulb
\* temperature).
ReductionStep_without_4a(i, s) ==
  LET P == V(s.total_pressure)
  IN  CASE i = 1 ->
             IF s.specific_heat_capacity # None
             THEN Set("humidity_ratio",
                      Ok(find_humidity_ratio_from_cp(V(s.specific_heat_capacity))))
             ELSE Skip
        [] i = 2 ->
             IF s.dew_point_temperature # None
             THEN Set("partial_pressure_vapor",
                      Ok(find_p_water_vapor_from_dew_point(V(s.dew_point_temperature))))
             ELSE Skip
        [] i = 3 ->
             IF s.partial_pressure_vapor # None
             THEN Set("humidity_ratio",
                      find_humidity_ratio(V(s.partial_pressure_vapor), P))
             ELSE IF s.humidity_ratio # None
             THEN Set("partial_pressure_vapor",
                      find_p_water_vapor_from_humidity_ratio(V(s.humidity_ratio), P))
             ELSE Skip
        [] i = 4 ->
             IF s.total_enthalpy = None /\ s.wet_bulb_temperature # None
             THEN Set("total_enthalpy",
                      LET w == find_saturation_humidity_ratio(V(s.wet_bulb_temperature), P)
                      IN  IF w.err # "none" THEN w
                          ELSE Ok(find_total_enthalpy(V(s.wet_bulb_temperature), w.val)))
             ELSE Skip

ReductionStep(i, s) ==
  LET P == V(s.total_pressure)
  IN  CASE i = 1 ->
             IF s.specific_heat_capacity # None
             THEN Set("humidity_ratio",
                      Ok(find_humidity_ratio_from_cp(V(s.specific_heat_capacity))))
             ELSE Skip
        [] i = 2 ->
             IF s.dew_point_temperature # None
             THEN Set("partial_pressure_vapor",
                      Ok(find_p_water_vapor_from_dew_point(V(s.dew_point_temperature))))
             ELSE Skip
        [] i = 3 ->
             IF s.partial_pressure_vapor # None
             THEN Set("humidity_ratio",
                      find_humidity_ratio(V(s.partial_pressure_vapor), P))
             ELSE IF s.humidity_ratio # None
             THEN Set("partial_pressure_vapor",
                      find_p_water_vapor_from_humidity_ratio(V(s.humidity_ratio), P))
             ELSE Skip
        [] i = 4 ->
             IF s.total_enthalpy # None
             THEN Set("wet_bulb_temperature",
                      find_wet_bulb_temperature(V(s.total_enthalpy), P))
             ELSE IF s.wet_bulb_temperature # None
             THEN Set("total_enthalpy",
                      LET w == find_saturation_humidity_ratio(V(s.wet_bulb_temperature), P)
                      IN  IF w.err # "none" THEN w
                          ELSE Ok(find_total_enthalpy(V(s.wet_bulb_temperature), w.val)))
             ELSE Skip

\* The default of the parameter p_total of the module's functions: 101325 Pa.
default_p_total == 101325000

CaseStep(case, i, s) ==
  LET P  == V(s.total_pressure)
      db == V(s.dry_bulb_temperature)
      wb == V(s.wet_bulb_temperature)
      W  == V(s.humidity_ratio)
      RH == V(s.relative_humidity)
      H  == V(s.total_enthalpy)
      pv == V(s.partial_pressure_vapor)
      v  == V(s.specific_volume)
      humidity_ratio_db_enthalpy ==
        Set("humidity_ratio", find_humidity_ratio_from_enthalpy_db(db, H))
      partial_pressure_vapor ==
        Set("partial_pressure_vapor", find_p_water_vapor_from_humidity_ratio(W, P))
      relative_humidity ==
        Set("relative_humidity", find_relative_humidity(pv, db))
      dew_point_temperature ==
        Set("dew_point_temperature", find_dew_point_temperature(pv))
      specific_volume ==
        Set("specific_volume", find_specific_volume(W, db, P))
      specific_heat_capacity ==
        Set("specific_heat_capacity", Ok(find_specific_heat(W)))
      total_enthalpy ==
        Set("total_enthalpy", Ok(find_total_enthalpy(db, W)))
      wet_bulb_temperature ==
        Set("wet_bulb_temperature", find_wet_bulb_temperature(H, P))
      dry_bulb_temperature ==
        Set("dry_bulb_temperature", find_dry_bulb_temperature(H, W))
  IN  CASE case = 1 ->
             (CASE i = 1 -> humidity_ratio_db_enthalpy
                [] i = 2 -> partial_pressure_vapor
                [] i = 3 -> relative_humidity
                [] i = 4 -> dew_point_temperature
                [] i = 5 -> specific_volume
                [] i = 6 -> specific_heat_capacity)
        [] case = 2 ->
             (CASE i = 1 -> total_enthalpy
                [] i = 2 -> wet_bulb_temperature
                [] i = 3 -> dew_point_temperature
                [] i = 4 -> relative_humidity
                [] i = 5 -> specific_volume
                [] i = 6 -> specific_heat_capacity)
        [] case = 3 ->
             (CASE i = 1 -> Set("partial_pressure_vapor",
                                Ok(MulDiv(RH, find_p_saturation(db), 1000000)))
                [] i = 2 -> Set("humidity_ratio",
                                find_humidity_ratio_from_RH_temp(RH, db, P))
                [] i = 3 -> dew_point_temperature
                [] i = 4 -> total_enthalpy
                [] i = 5 -> wet_bulb_temperature
                [] i = 6 -> specific_volume
                [] i = 7 -> specific_heat_capacity)
        [] case = 4 ->
             (CASE i = 1 -> Set("humidity_ratio",
                                find_humidity_ratio_from_specific_vol_and_temp(v, db, P))
                [] i = 2 -> partial_pressure_vapor
                [] i = 3 -> relative_humidity
                [] i = 4 -> dew_point_temperature
                [] i = 5 -> specific_heat_capacity
                [] i = 6 -> total_enthalpy
                [] i = 7 -> wet_bulb_temperature)
        [] case = 5 ->
             (CASE i = 1 -> dry_bulb_temperature
                [] i = 2 -> dew_point_temperature
                [] i = 3 -> relative_humidity
                [] i = 4 -> specific_volume
                [] i = 5 -> specific_heat_capacity)
        [] case = 6 ->
             (CASE i = 1 -> Set("dry_bulb_temperature",
                                find_dry_bulb_temperature_RH_enthalpy(RH, H, P))
                [] i = 2 -> humidity_ratio_db_enthalpy
                [] i = 3 -> partial_pressure_vapor
                [] i = 4 -> specific_volume
                [] i = 5 -> specific_heat_capacity
                [] i = 6 -> dew_point_temperature)
        [] case = 7 ->
             (CASE i = 1 -> Set("humidity_ratio",
                                find_humidity_ratio_from_enthalpy_specific_vol(H, v, P))
                [] i = 2 -> dry_bulb_temperature
                [] i = 3 -> Set("partial_pressure_vapor",
                                find_p_water_vapor_from_humidity_ratio(W, default_p_total))
                [] i = 4 -> dew_point_temperature
                [] i = 5 -> relative_humidity
                [] i = 6 -> specific_heat_capacity)
        [] case = 8 ->
             (CASE i = 1 -> Set("dry_bulb_temperature",
                                find_dry_bulb_temperature_RH_p_vapor(RH, pv))
                [] i = 2 -> total_enthalpy
                [] i = 3 -> wet_bulb_temperature
                [] i = 4 -> specific_heat_capacity
                [] i = 5 -> dew_point_temperature
                [] i = 6 -> specific_volume)
        [] case = 9 ->
             (CASE i = 1 -> dry_bulb_temperature
                [] i = 2 -> dew_point_temperature
                [] i = 3 -> relative_humidity
                [] i = 4 -> specific_volume
                [] i = 5 -> specific_heat_capacity)
        [] case = 10 ->
             (CASE i = 1 -> Set("dry_bulb_temperature",
                                find_dry_bulb_temperature_specific_vol_H(v, W, P))
                [] i = 2 -> total_enthalpy
                [] i = 3 -> wet_bulb_temperature
                [] i = 4 -> relative_humidity
                [] i = 5 -> specific_heat_capacity
                [] i = 6 -> dew_point_temperature)

\* The number of assignments of each case branch; Case 11 is `pass`, and 12
\* stands for no branch condition being true.
NumSteps(case) ==
  CASE case \in {1, 2, 6, 7, 8, 10} -> 6
    [] case \in {3, 4} -> 7
    [] case \in {5, 9} -> 5
    [] OTHER -> 0

\* The condition of the branch `case` of the if/elif chain of define_point.
BranchCondition(case, s) ==
  LET db == s.dry_bulb_temperature # None
      wb == s.wet_bulb_temperature # None
      W  == s.humidity_ratio # None
      RH == s.relative_humidity # None
      H  == s.total_enthalpy # None
      v  == s.specific_volume # None
  IN  CASE case = 1 -> db /\ wb
        [] case = 2 -> db /\ W
        [] case = 3 -> db /\ RH
        [] case = 4 -> db /\ v
        [] case = 5 -> wb /\ W
        [] case = 6 -> wb /\ RH
        [] case = 7 -> wb /\ v
        [] case = 8 -> W /\ RH
        [] case = 9 -> W /\ H
        [] case = 10 -> W /\ v
        [] case = 11 -> RH /\ v
        [] OTHER -> FALSE

\* The branches whose condition holds.
KnownPairs(s) == {case \in 1..11 : BranchCondition(case, s)}

\* The if/elif chain read from the bottom: the last branch whose condition
\* holds.
CaseOf_last_match(s) ==
  IF KnownPairs(s) = {} THEN 12
  ELSE CHOOSE case \in KnownPairs(s) : \A c \in KnownPairs(s) : c <= case

\* The first branch of the if/elif chain whose condition holds.
CaseOf(s) ==
  LET db == s.dry_bulb_temperature # None
      wb == s.wet_bulb_temperature # None
      W  == s.humidity_ratio # None
      RH == s.relative_humidity # None
      H  == s.total_enthalpy # None
      v  == s.specific_volume # None
  IN  IF db /\ wb THEN 1
      ELSE IF db /\ W THEN 2
      ELSE IF db /\ RH THEN 3
      ELSE IF db /\ v THEN 4
      ELSE IF wb /\ W THEN 5
      ELSE IF wb /\ RH THEN 6
      ELSE IF wb /\ v THEN 7
      ELSE IF W /\ RH THEN 8
      ELSE IF W /\ H THEN 9
      ELSE IF W /\ v THEN 10
      ELSE IF RH /\ v THEN 11
      ELSE 12

\* The object and the exception, if any, a block of assignments ends with.
Ended(s, err) == [self |-> s, err |-> err]

\* The object after the assignment st.
Assigned(s, st) == [s EXCEPT ![st.field] = Some(st.res.val)]

\* The assignments of a block run in order from step i; the first one that
\* raises ends the block and leaves the earlier assignments in place.
RECURSIVE RunReductions(_, _)
RECURSIVE AfterReduction(_, _, _)
RunReductions(s, i) ==
  IF i > 4 THEN Ended(s, "none") ELSE AfterReduction(s, i, ReductionStep(i, s))

AfterReduction(s, i, st) ==
  IF st.field = "" THEN RunReductions(s, i + 1)
  ELSE IF st.res.err # "none" THEN Ended(s, st.res.err)
  ELSE RunReductions(Assigned(s, st), i + 1)

RECURSIVE RunCase(_, _, _)
RECURSIVE AfterCaseStep(_, _, _, _)
RunCase(case, s, i) ==
  IF i > NumSteps(case) THEN Ended(s, "none")
  ELSE AfterCaseStep(case, s, i, CaseStep(case, i, s))

AfterCaseStep(case, s, i, st) ==
  IF st.res.err # "none" THEN Ended(s, st.res.err)
  ELSE RunCase(case, Assigned(s, st), i + 1)

\* define_point after check_validity: the case reductions, then the branch.
AfterReductions(r) ==
  IF r.err # "none" THEN r ELSE RunCase(CaseOf(r.self), r.self, 1)

\* PsychrometricProperties(**kw) as one evaluation: the object as the
\* constructor leaves it and the exception that ended it ("none" when the
\* call returns the object).
PsychrometricProperties(kw) ==
  IF ~check_definable(kw) THEN Ended(kw, "PointNotDefinedException")
  ELSE IF check_validity(kw) # NoException THEN Ended(kw, "InvalidParamsException")
  ELSE AfterReductions(RunReductions(kw, 1))

\* ----------------------------------------------------------------------
\* The values the calculator's input boxes are filled with (the relative
\* humidity box is read in percent and divided by 100).
DryBulbValues == {20000000, 30000000}

WetBulbValues == {20000000, 25000000}

DewPointValues == {20000000, 25000000}

PressureValues == {101325000, 90000000, 110000000}

HumidityRatioValues ==
  {1000000, find_saturation_humidity_ratio(20000000, 101325000).val, 2000000}

RelativeHumidityValues == {-200000, 500000, 1000000, 1300000}

EnthalpyValues == {-10000000, 50000000}

VaporPressureValues == {1500000, find_p_saturation(20000000), 3000000}

SpecificVolumeValues == {85000000, 87000000}

SpecificHeatValues == {102500000, 104260000}

Optional(S) == {None} \cup {Some(v) : v \in S}

AllKwargs ==
  [dry_bulb_temperature   : Optional(DryBulbValues),
   wet_bulb_temperature   : Optional(WetBulbValues),
   dew_point_temperature  : Optional(DewPointValues),
   total_pressure         : Optional(PressureValues),
   humidity_ratio         : Optional(HumidityRatioValues),
   relative_humidity      : Optional(RelativeHumidityValues),
   total_enthalpy         : Optional(EnthalpyValues),
   partial_pressure_vapor : Optional(VaporPressureValues),
   specific_volume        : Optional(SpecificVolumeValues),
   specific_heat_capacity : Optional(SpecificHeatValues)]

Supplied(kw) == {f \in Fields : kw[f] # None}

\* An unsaturated state at 101325 Pa, and the saturated state at 20 C and
\* 101325 Pa.
Typical ==
  [dry_bulb_temperature   |-> 20000000,
   wet_bulb_temperature   |-> 20000000,
   dew_point_temperature  |-> 20000000,
   total_pressure         |-> 101325000,
   humidity_ratio         |-> 1000000,
   relative_humidity      |-> 500000,
   total_enthalpy         |-> 50000000,
   partial_pressure_vapor |-> 1500000,
   specific_volume        |-> 85000000,
   specific_heat_capacity |-> 102500000]

Saturated ==
  [Typical EXCEPT
     !.humidity_ratio = find_saturation_humidity_ratio(20000000, 101325000).val,
     !.relative_humidity = 1000000,
     !.partial_pressure_vapor = find_p_saturation(20000000)]

\* A box is empty or holds the value of `values`.
FilledFrom(kw, values) == \A f \in Fields : kw[f] \in {None, Some(values[f])}

\* The most boxes, besides total pressure, that are filled freely.
MaxSupplied == 2

\* Every combination of filled and empty boxes with the values of Typical,
\* every combination of the saturated state without enthalpy, volume and
\* specific heat, and every choice of values in at most MaxSupplied boxes.
Inputs ==
  {kw \in AllKwargs :
     \/ FilledFrom(kw, Typical)
     \/ /\ FilledFrom(kw, Saturated)
        /\ Supplied(kw) \cap {"total_enthalpy", "specific_volume", "specific_heat_capacity"} = {}
     \/ Cardinality(Supplied(kw) \ {"total_pressure"}) <= MaxSupplied}

NoKwargs == [f \in Fields |-> None]

\* No second construction is in progress.
NoOther == [pc |-> "idle", kwargs |-> NoKwargs, self |-> NoKwargs,
            point_definable |-> FALSE, err |-> "none"]

\* No solver call is in progress.
NoCall == [name |-> "none", args |-> << >>, st |-> Ok(0)]

\* The calculator window as it is built: empty boxes, empty output box.
CalculatorBuilt ==
  /\ pc = "idle"
  /\ kwargs = NoKwargs
  /\ self = NoKwargs
  /\ point_definable = FALSE
  /\ exc = NoException
  /\ psy_point = None
  /\ output_box = ""
  /\ ran = << >>
  /\ branch = 0
  /\ solver = NoCall
  /\ psychrometric_properties = NoKwargs
  /\ other = NoOther

\* A LoadCellArray as its class leaves it: the attribute num_cells, which
\* measurement_clicked reads, is not defined.
NoNumCells == [num_cells |-> None]

\* The main thread waits in the event loop; no exception has ended it.
Idle == [at |-> "idle", exception |-> "none"]

\* AppWindow.__init__: both buffers None, an empty thread pool, both flags
\* False.  `array` is the load cell array, `threads` the pool's
\* maxThreadCount (the machine's ideal thread count).
AppWindowBuilt(array, threads) ==
  /\ controls = [measure |-> FALSE, read_signal |-> FALSE]
  /\ mass_data = None
  /\ rht_data = None
  /\ load_cell_array = array
  /\ threadpool = [maxThreadCount |-> threads, workers |-> << >>]
  /\ events = << >>
  /\ main_thread = Idle
  /\ reads = 0

Init ==
  /\ CalculatorBuilt
  /\ AppWindowBuilt(NoNumCells, 4)
  /\ cache = None
  /\ saved = None
  /\ loaded = None

\* calculate_clicked with a constructor that keeps the fields in the
\* module-level dict psychrometric_properties instead of the instance.
Calculate_through_module_dict(kw) ==
  /\ pc = "idle"
  /\ kwargs' = kw
  /\ psychrometric_properties' =
        [f \in Fields |-> IF kw[f] # None THEN kw[f] ELSE psychrometric_properties[f]]
  /\ self' = psychrometric_properties'
  /\ point_definable' = check_definable(self')
  /\ exc' = NoException
  /\ psy_point' = None
  /\ output_box' = ""
  /\ ran' = << "check_definable" >>
  /\ branch' = 0
  /\ pc' = "define_point"
  /\ UNCHANGED <<solver, other, Recording, Persistence>>

\* calculate_clicked empties the output box, reads the boxes and calls the
\* constructor, which copies the keyword arguments and evaluates
\* check_definable (__init__, up to the call of define_point).
Calculate(kw) ==
  /\ pc = "idle"
  /\ kwargs' = kw
  /\ self' = kw
  /\ point_definable' = check_definable(kw)
  /\ exc' = NoException
  /\ psy_point' = None
  /\ output_box' = ""
  /\ ran' = << "check_definable" >>
  /\ branch' = 0
  /\ pc' = "define_point"
  /\ UNCHANGED <<solver, psychrometric_properties, other, Recording, Persistence>>

\* define_point without its first statement.
DefinePoint_unguarded ==
  /\ pc = "define_point"
  /\ pc' = "check_validity"
  /\ UNCHANGED <<kwargs, self, point_definable, exc, psy_point, output_box, ran, branch,
               solver, psychrometric_properties, other, Recording, Persistence>>

\* define_point: `if not self.point_definable: raise PointNotDefinedException`.
DefinePoint ==
  /\ pc = "define_point"
  /\ IF point_definable
     THEN pc' = "check_validity" /\ exc' = exc
     ELSE pc' = "raised" /\ exc' = PointNotDefinedException
  /\ UNCHANGED <<kwargs, self, point_definable, psy_point, output_box, ran, branch,
               solver, psychrometric_properties, other, Recording, Persistence>>

\* define_point with the validator applied to the fields as the case
\* reductions would leave them.
CheckValidity_on_derived_values ==
  /\ pc = "check_validity"
  /\ exc' = check_validity(RunReductions(self, 1).self)
  /\ pc' = IF exc' = NoException THEN "reduce" ELSE "raised"
  /\ ran' = Append(ran, "check_validity")
  /\ UNCHANGED <<kwargs, self, point_definable, psy_point, output_box, branch,
               solver, psychrometric_properties, other, Recording, Persistence>>

\* define_point: `self.check_validity()`.
CheckValidity ==
  /\ pc = "check_validity"
  /\ exc' = check_validity(self)
  /\ pc' = IF exc' = NoException THEN "reduce" ELSE "raised"
  /\ ran' = Append(ran, "check_validity")
  /\ UNCHANGED <<kwargs, self, point_definable, psy_point, output_box, branch,
               solver, psychrometric_properties, other, Recording, Persistence>>

\* How a block of assignments ends: with nothing raised, with a Python
\* exception, or never (a solver loop that does not end).
Ending(err, next) ==
  CASE err = "none" -> next
    [] err = "NoConvergence" -> "looping"
    [] OTHER -> "raised"

\* define_point: case reductions 1 to 4.
CaseReduction ==
  /\ pc = "reduce"
  /\ \E r \in {RunReductions(self, 1)} :
         /\ self' = r.self
         /\ pc' = Ending(r.err, "dispatch")
         /\ exc' = IF pc' = "raised" THEN BuiltinException(r.err) ELSE exc
  /\ ran' = Append(ran, "reduction")
  /\ UNCHANGED <<kwargs, point_definable, psy_point, output_box, branch,
               solver, psychrometric_properties, other, Recording, Persistence>>

\* define_point: the if/elif chain of Case 1 to Case 11.
Dispatch ==
  /\ pc = "dispatch"
  /\ branch' = CaseOf(self)
  /\ \E r \in {RunCase(CaseOf(self), self, 1)} :
         /\ self' = r.self
         /\ pc' = Ending(r.err, "returned")
         /\ exc' = IF pc' = "raised" THEN BuiltinException(r.err) ELSE exc
  /\ ran' = Append(ran, "case")
  /\ UNCHANGED <<kwargs, point_definable, psy_point, output_box,
               solver, psychrometric_properties, other, Recording, Persistence>>

\* The boxes calculate_clicked fills from the object: those left empty.
EmptyBoxes == Fields \ Supplied(kwargs)

\* calculate_clicked with a constructor that reports PointNotDefinedException
\* without raising it again, so that the call returns the object.
Deliver_not_reraised ==
  /\ pc \in {"returned", "raised"}
  /\ IF pc = "returned" \/ exc.kind = "PointNotDefinedException"
     THEN /\ psy_point' = Some(self)
          /\ IF \E f \in EmptyBoxes : self[f] = None
             THEN /\ output_box' = output_box
                  /\ exc' = BuiltinException("TypeError")
                  /\ pc' = "crashed"
             ELSE /\ output_box' = "Calculated!"
                  /\ exc' = exc
                  /\ pc' = "shown"
     ELSE /\ psy_point' = psy_point
          /\ exc' = exc
          /\ CASE exc.kind = "InvalidParamsException" ->
                    output_box' = exc.text /\ pc' = "shown"
               [] OTHER ->
                    output_box' = output_box /\ pc' = "crashed"
  /\ UNCHANGED <<kwargs, self, point_definable, ran, branch,
               solver, psychrometric_properties, other, Recording, Persistence>>

\* calculate_clicked after the constructor call.  The object is bound to
\* psy_point only when the call returned; the two engine exceptions are
\* caught and reported in the output box, any other exception leaves the
\* handler.  round() of a field that is None raises TypeError before
\* "Calculated!" is shown.
Deliver ==
  /\ pc \in {"returned", "raised"}
  /\ IF pc = "returned"
     THEN /\ psy_point' = Some(self)
          /\ IF \E f \in EmptyBoxes : self[f] = None
             THEN /\ output_box' = output_box
                  /\ exc' = BuiltinException("TypeError")
                  /\ pc' = "crashed"
             ELSE /\ output_box' = "Calculated!"
                  /\ exc' = exc
                  /\ pc' = "shown"
     ELSE /\ psy_point' = psy_point
          /\ exc' = exc
          /\ CASE exc.kind = "PointNotDefinedException" ->
                    output_box' = "Not enough information provided." /\ pc' = "shown"
               [] exc.kind = "InvalidParamsException" ->
                    output_box' = exc.text /\ pc' = "shown"
               [] OTHER ->
                    output_box' = output_box /\ pc' = "crashed"
  /\ UNCHANGED <<kwargs, self, point_definable, ran, branch,
               solver, psychrometric_properties, other, Recording, Persistence>>

\* clear_clicked: the boxes are emptied; the locals of the last call are gone.
Clear ==
  /\ pc = "shown"
  /\ pc' = "idle"
  /\ kwargs' = NoKwargs
  /\ self' = NoKwargs
  /\ point_definable' = FALSE
  /\ exc' = NoException
  /\ psy_point' = None
  /\ output_box' = "Cleared!"
  /\ ran' = << >>
  /\ branch' = 0
  /\ UNCHANGED <<solver, psychrometric_properties, other, Recording, Persistence>>

Next ==
  \/ \E kw \in Inputs : Calculate(kw)
  \/ DefinePoint
  \/ CheckValidity
  \/ CaseReduction
  \/ Dispatch
  \/ Deliver
  \/ Clear

Spec == Init /\ [][Next]_vars

\* ----------------------------------------------------------------------
\* The three iterative solvers, one pass of the while loop at a time.  A
\* call holds the solver's name, its arguments and the loop state: "again"
\* with the current trial temperature while the loop runs, the returned
\* value or the exception once it has ended.

Handler == <<pc, kwargs, self, point_definable, exc, psy_point, output_box, ran, branch,
             psychrometric_properties, other, Recording, Persistence>>

\* The frame of a solver that has been called: the loop is about to start
\* from the default trial temperature.
Called(name, args) == [name |-> name, args |-> args, st |-> Start(trial_temp)]

\* The while loop of the solver `name` is being executed.
InLoop(name) == solver.name = name /\ solver.st.err = "again"

\* One evaluation of the loop condition and, while it holds, of the body;
\* t_next is the step from the current trial temperature.
Pass(t_next) ==
  /\ solver' = [solver EXCEPT !.st = LoopExit(solver.st.val, t_next)]
  /\ UNCHANGED Handler

\* find_dew_point_temperature(p_vapor=...), entry and while loop.
Call_find_dew_point_temperature ==
  /\ solver = NoCall
  /\ \E p_vapor \in VaporPressureValues :
        solver' = Called("find_dew_point_temperature", <<p_vapor>>)
  /\ UNCHANGED Handler

Pass_find_dew_point_temperature ==
  /\ InLoop("find_dew_point_temperature")
  /\ \E t_next \in {t_dew_point_step(solver.st.val, solver.args[1])} : Pass(t_next)

\* find_dry_bulb_temperature_RH_enthalpy(...), entry and while loop.
Call_find_dry_bulb_temperature_RH_enthalpy ==
  /\ solver = NoCall
  /\ \E relative_humidity \in RelativeHumidityValues, total_enthalpy \in EnthalpyValues,
        total_pressure \in PressureValues :
        solver' = Called("find_dry_bulb_temperature_RH_enthalpy",
                         <<relative_humidity, total_enthalpy, total_pressure>>)
  /\ UNCHANGED Handler

Pass_find_dry_bulb_temperature_RH_enthalpy ==
  /\ InLoop("find_dry_bulb_temperature_RH_enthalpy")
  /\ \E t_next \in {t_dry_bulb_step(solver.st.val, solver.args[1], solver.args[2],
                                    solver.args[3])} : Pass(t_next)

\* find_wet_bulb_temperature(...), entry and while loop.
Call_find_wet_bulb_temperature ==
  /\ solver = NoCall
  /\ \E total_enthalpy \in EnthalpyValues, total_pressure \in PressureValues :
        solver' = Called("find_wet_bulb_temperature", <<total_enthalpy, total_pressure>>)
  /\ UNCHANGED Handler

Pass_find_wet_bulb_temperature ==
  /\ InLoop("find_wet_bulb_temperature")
  /\ \E t_next \in {t_wet_bulb_step(solver.st.val, solver.args[1], solver.args[2])} :
        Pass(t_next)

\* The call has ended (return or raise) and its frame is gone.
SolverEnds ==
  /\ solver.name # "none"
  /\ solver.st.err \notin {"again", "coefficients"}
  /\ solver' = NoCall
  /\ UNCHANGED Handler

SolverPass ==
  \/ Pass_find_dew_point_temperature
  \/ Pass_find_dry_bulb_temperature_RH_enthalpy
  \/ Pass_find_wet_bulb_temperature

SolverNext ==
  \/ Call_find_dew_point_temperature
  \/ Call_find_dry_bulb_temperature_RH_enthalpy
  \/ Call_find_wet_bulb_temperature
  \/ Pass_find_dew_point_temperature
  \/ Pass_find_dry_bulb_temperature_RH_enthalpy
  \/ Pass_find_wet_bulb_temperature
  \/ SolverEnds

\* A running interpreter keeps executing the loop: a pass that can be taken
\* is taken.  A pass can be taken exactly while the loop state is "again"
\* (every pass changes the loop state), so this is WF_vars(SolverPass) with
\* its ENABLED written out.
LoopGoesOn ==
  \/ []<>(solver.st.err # "again")
  \/ []<><<SolverPass>>_vars

SolverSpec == Init /\ [][SolverNext]_vars /\ LoopGoesOn /\ WF_vars(SolverEnds)

\* ----------------------------------------------------------------------
\* Two constructions in progress at once: the calculator's, and a second
\* call PsychrometricProperties(**kw) by another caller of the module, each
\* advancing one statement of __init__ / define_point at a time.  Both run
\* the same code; `other` holds the second call's frame.

First == <<pc, kwargs, self, point_definable, exc, psy_point, output_box, ran, branch,
           solver, psychrometric_properties>>

\* The inputs of the two callers: boxes filled from Typical, total pressure
\* and at most two of dry bulb, humidity ratio, relative humidity and
\* specific volume.
ConcurrentInputs ==
  {kw \in AllKwargs :
     /\ FilledFrom(kw, Typical)
     /\ kw.total_pressure # None
     /\ Supplied(kw) \subseteq {"total_pressure", "dry_bulb_temperature", "humidity_ratio",
                                "relative_humidity", "specific_volume"}
     /\ Cardinality(Supplied(kw)) <= 3}

\* __init__ up to the call of define_point.
OtherCalculate(kw) ==
  /\ other.pc = "idle"
  /\ other' = [pc |-> "define_point", kwargs |-> kw, self |-> kw,
               point_definable |-> check_definable(kw), err |-> "none"]
  /\ UNCHANGED <<First, Recording, Persistence>>

\* define_point: `if not self.point_definable: raise PointNotDefinedException`.
OtherDefinePoint ==
  /\ other.pc = "define_point"
  /\ other' = IF other.point_definable
              THEN [other EXCEPT !.pc = "check_validity"]
              ELSE [other EXCEPT !.pc = "raised", !.err = "PointNotDefinedException"]
  /\ UNCHANGED <<First, Recording, Persistence>>

\* define_point: `self.check_validity()`.
OtherCheckValidity ==
  /\ other.pc = "check_validity"
  /\ other' = IF check_validity(other.self) = NoException
              THEN [other EXCEPT !.pc = "reduce"]
              ELSE [other EXCEPT !.pc = "raised", !.err = "InvalidParamsException"]
  /\ UNCHANGED <<First, Recording, Persistence>>

\* define_point: case reductions 1 to 4.
OtherCaseReduction ==
  /\ other.pc = "reduce"
  /\ \E r \in {RunReductions(other.self, 1)} :
        other' = [other EXCEPT !.self = r.self, !.err = r.err,
                               !.pc = Ending(r.err, "dispatch")]
  /\ UNCHANGED <<First, Recording, Persistence>>

\* define_point: the if/elif chain of Case 1 to Case 11.
OtherDispatch ==
  /\ other.pc = "dispatch"
  /\ \E r \in {RunCase(CaseOf(other.self), other.self, 1)} :
        other' = [other EXCEPT !.self = r.self, !.err = r.err,
                               !.pc = Ending(r.err, "returned")]
  /\ UNCHANGED <<First, Recording, Persistence>>

\* The second caller has its object or its exception and lets go of it.
OtherEnds ==
  /\ other.pc \in {"returned", "raised"}
  /\ other' = NoOther
  /\ UNCHANGED <<First, Recording, Persistence>>

ConcurrentNext ==
  \/ \E kw \in ConcurrentInputs : Calculate(kw)
  \/ DefinePoint
  \/ CheckValidity
  \/ CaseReduction
  \/ Dispatch
  \/ Deliver
  \/ Clear
  \/ \E kw \in ConcurrentInputs : OtherCalculate(kw)
  \/ OtherDefinePoint
  \/ OtherCheckValidity
  \/ OtherCaseReduction
  \/ OtherDispatch
  \/ OtherEnds

ConcurrentSpec == Init /\ [][ConcurrentNext]_vars

\* ----------------------------------------------------------------------
\* find_humidity_ratio_from_enthalpy_specific_vol called on its own: the
\* coefficients are computed, then the roots are taken and one is selected.

QuadraticEnthalpyValues == {-10000000, 20000000, 50000000, 80000000, 200000000, 500000000}

QuadraticVolumeValues == {20000000, 80000000, 85000000, 87000000, 90000000}

\* <<B, C>> as the function computes them for arguments whose enthalpy lies
\* beyond the range held here: enthalpy = -10916.975821673885,
\* specific_vol = -30.0, p_total = 101325 give B = 232395.7347 and C = 0.0.
CoefficientsBeyondRange == { <<23239573, 0>> }

QuadraticInputs ==
  {QuadraticCoefficients(enthalpy, MulDiv(p_total, specific_vol, 100000000)) :
     enthalpy \in QuadraticEnthalpyValues, specific_vol \in QuadraticVolumeValues,
     p_total \in PressureValues}
  \cup CoefficientsBeyondRange

\* Entry and the assignments of A, B and C.
Call_find_humidity_ratio_from_enthalpy_specific_vol ==
  /\ solver = NoCall
  /\ \E c \in QuadraticInputs :
        solver' = [name |-> "find_humidity_ratio_from_enthalpy_specific_vol",
                   args |-> c, st |-> [err |-> "coefficients", val |-> 0]]
  /\ UNCHANGED Handler

\* The two roots and the if/elif/else that returns one of them or raises.
Select_find_humidity_ratio_from_enthalpy_specific_vol ==
  /\ solver.name = "find_humidity_ratio_from_enthalpy_specific_vol"
  /\ solver.st.err = "coefficients"
  /\ solver' = [solver EXCEPT !.st = FromCoefficients(solver.args)]
  /\ UNCHANGED Handler

QuadraticNext ==
  \/ Call_find_humidity_ratio_from_enthalpy_specific_vol
  \/ Select_find_humidity_ratio_from_enthalpy_specific_vol
  \/ SolverEnds

QuadraticSpec == Init /\ [][QuadraticNext]_vars

\* ----------------------------------------------------------------------
\* The recording of the main window.  The Recording check box starts and
\* stops a session; every start hands a MassUpdater, an RHTUpdater and a
\* MeasurementCoordinator to the thread pool.  The threads take their steps
\* in any order and a sleep lasts any length of time.  A signal emitted by a
\* worker thread is queued for the main thread, which runs the connected
\* slots between its own handlers.

\* The most sessions started and the most read signals emitted.
MaxSessions == 2

MaxReads == 2

\* An exception that leaves a slot ends the application.
Aborted(name) == [at |-> "aborted", exception |-> name]

\* QThreadPool.start: the runnable gets a thread and begins its run method
\* unless maxThreadCount threads are in use; then it waits in the pool's
\* queue.
start(pool, kind) ==
  [pool EXCEPT !.workers =
     Append(@, [kind |-> kind,
                at |-> IF Cardinality({i \in DOMAIN pool.workers :
                                         pool.workers[i].at \notin {"queued", "done"}})
                          < pool.maxThreadCount
                       THEN "loop" ELSE "queued",
                taken_reading |-> FALSE])]

\* measurement_handling: the three runnables are handed to the pool in the
\* order mass_handler, rht_handler, coordinator.
measurement_handling(pool) ==
  start(start(start(pool, "MassUpdater"), "RHTUpdater"), "MeasurementCoordinator")

\* record_checked: the check box changes state; controls['measure'] is set
\* and measurement_clicked runs the start branch or the stop branch.
RecordChecked ==
  /\ main_thread = Idle
  /\ events = << >>
  /\ \E checked \in {~controls.measure} :
       /\ controls' = [controls EXCEPT !.measure = checked]
       /\ IF checked
          THEN /\ Len(threadpool.workers) < 3 * MaxSessions
               /\ IF load_cell_array.num_cells = None
                  THEN /\ main_thread' = Aborted("AttributeError")
                       /\ UNCHANGED <<mass_data, rht_data, threadpool>>
                  ELSE /\ mass_data' = Some(1)
                       /\ rht_data' = Some(1)
                       /\ threadpool' = measurement_handling(threadpool)
                       /\ main_thread' = main_thread
          ELSE /\ threadpool' = threadpool
               /\ IF mass_data = None \/ rht_data = None
                  THEN /\ main_thread' = Aborted("AxisError")
                       /\ UNCHANGED <<mass_data, rht_data>>
                  ELSE IF V(mass_data) # V(rht_data)
                  THEN /\ mass_data' = Some(V(mass_data) - 1)
                       /\ rht_data' = Some(V(rht_data) - 1)
                       /\ main_thread' = Aborted("ValueError")
                  ELSE /\ mass_data' = None
                       /\ rht_data' = None
                       /\ main_thread' = main_thread
  /\ UNCHANGED <<load_cell_array, events, reads, First, other, Persistence>>

\* A thread of the pool is free: the first waiting runnable begins its run
\* method.
PoolStarts ==
  /\ main_thread.at # "aborted"
  /\ \E i \in DOMAIN threadpool.workers :
       /\ threadpool.workers[i].at = "queued"
       /\ \A j \in 1..(i - 1) : threadpool.workers[j].at # "queued"
       /\ Cardinality({j \in DOMAIN threadpool.workers :
                         threadpool.workers[j].at \notin {"queued", "done"}})
            < threadpool.maxThreadCount
       /\ threadpool' = [threadpool EXCEPT !.workers[i].at = "loop"]
  /\ UNCHANGED <<controls, mass_data, rht_data, load_cell_array, events, main_thread,
                 reads, First, other, Persistence>>

\* MassUpdater.run / RHTUpdater.run: one pass of `while True` that changes
\* something: the loop is left, a measurement is begun, or taken_reading is
\* reset.
UpdaterPolls ==
  /\ main_thread.at # "aborted"
  /\ \E i \in DOMAIN threadpool.workers :
       /\ threadpool.workers[i].kind \in {"MassUpdater", "RHTUpdater"}
       /\ threadpool.workers[i].at = "loop"
       /\ IF ~controls.measure
          THEN threadpool' = [threadpool EXCEPT !.workers[i].at = "done"]
          ELSE IF controls.read_signal /\ ~threadpool.workers[i].taken_reading
          THEN threadpool' = [threadpool EXCEPT !.workers[i].at = "take_measurement"]
          ELSE /\ ~controls.read_signal
               /\ threadpool.workers[i].taken_reading
               /\ threadpool' = [threadpool EXCEPT !.workers[i].taken_reading = FALSE]
  /\ UNCHANGED <<controls, mass_data, rht_data, load_cell_array, events, main_thread,
                 reads, First, other, Persistence>>

\* The measurement is taken and the result signal emitted; the updater goes
\* to sleep.
UpdaterEmits ==
  /\ main_thread.at # "aborted"
  /\ \E i \in DOMAIN threadpool.workers :
       /\ threadpool.workers[i].kind \in {"MassUpdater", "RHTUpdater"}
       /\ threadpool.workers[i].at = "take_measurement"
       /\ events' = Append(events, IF threadpool.workers[i].kind = "MassUpdater"
                                    THEN "mass_result" ELSE "rht_result")
       /\ threadpool' = [threadpool EXCEPT !.workers[i].at = "sleep"]
  /\ UNCHANGED <<controls, mass_data, rht_data, load_cell_array, main_thread,
                 reads, First, other, Persistence>>

\* The two sleeps of the updater are over (the finished signal between them
\* has no slot); taken_reading is set and the loop goes on.
UpdaterWakes ==
  /\ main_thread.at # "aborted"
  /\ \E i \in DOMAIN threadpool.workers :
       /\ threadpool.workers[i].kind \in {"MassUpdater", "RHTUpdater"}
       /\ threadpool.workers[i].at = "sleep"
       /\ threadpool' = [threadpool EXCEPT !.workers[i].at = "loop",
                                           !.workers[i].taken_reading = TRUE]
  /\ UNCHANGED <<controls, mass_data, rht_data, load_cell_array, events, main_thread,
                 reads, First, other, Persistence>>

\* MeasurementCoordinator.run: the test of controls['measure']; the
\* coordinator leaves the loop or goes to sleep for the interval.
CoordinatorPolls ==
  /\ main_thread.at # "aborted"
  /\ \E i \in DOMAIN threadpool.workers :
       /\ threadpool.workers[i].kind \in {"MeasurementCoordinator"}
       /\ threadpool.workers[i].at = "loop"
       /\ threadpool' = [threadpool EXCEPT
                           !.workers[i].at = IF controls.measure THEN "sleep" ELSE "done"]
  /\ UNCHANGED <<controls, mass_data, rht_data, load_cell_array, events, main_thread,
                 reads, First, other, Persistence>>

\* The interval is over: the coordinator emits the read signal, whatever
\* controls['measure'] is by now, and returns to the test.
CoordinatorEmits ==
  /\ main_thread.at # "aborted"
  /\ reads < MaxReads
  /\ \E i \in DOMAIN threadpool.workers :
       /\ threadpool.workers[i].kind \in {"MeasurementCoordinator"}
       /\ threadpool.workers[i].at = "sleep"
       /\ threadpool' = [threadpool EXCEPT !.workers[i].at = "loop"]
  /\ events' = Append(events, "read")
  /\ reads' = reads + 1
  /\ UNCHANGED <<controls, mass_data, rht_data, load_cell_array, main_thread, First, other, Persistence>>

\* emit_read_pulse, up to its sleep: read_signal is raised and the main
\* thread sleeps for a second.
EmitReadPulse ==
  /\ main_thread = Idle
  /\ events # << >>
  /\ Head(events) = "read"
  /\ events' = Tail(events)
  /\ controls' = [controls EXCEPT !.read_signal = TRUE]
  /\ main_thread' = [main_thread EXCEPT !.at = "emit_read_pulse"]
  /\ UNCHANGED <<mass_data, rht_data, load_cell_array, threadpool, reads, First, other, Persistence>>

\* emit_read_pulse after its sleep: read_signal is lowered.
EmitReadPulseReturns ==
  /\ main_thread.at = "emit_read_pulse"
  /\ controls' = [controls EXCEPT !.read_signal = FALSE]
  /\ main_thread' = Idle
  /\ UNCHANGED <<mass_data, rht_data, load_cell_array, threadpool, events, reads, First, other, Persistence>>

\* The result of a MassUpdater arrives: show_new_masses formats each entry
\* of the list with %f, the entries are the lists of the chambers, and the
\* TypeError ends the application before store_masses is called.
MassResult ==
  /\ main_thread = Idle
  /\ events # << >>
  /\ Head(events) = "mass_result"
  /\ events' = Tail(events)
  /\ main_thread' = Aborted("TypeError")
  /\ UNCHANGED <<controls, mass_data, rht_data, load_cell_array, threadpool, reads,
                 First, other, Persistence>>

\* The result of an RHTUpdater arrives: show_new_rht fills the label and
\* store_rht appends a row to rht_data; np.append raises ValueError when
\* rht_data is None.
RhtResult ==
  /\ main_thread = Idle
  /\ events # << >>
  /\ Head(events) = "rht_result"
  /\ events' = Tail(events)
  /\ IF rht_data = None
     THEN rht_data' = rht_data /\ main_thread' = Aborted("ValueError")
     ELSE rht_data' = Some(V(rht_data) + 1) /\ main_thread' = main_thread
  /\ UNCHANGED <<controls, mass_data, load_cell_array, threadpool, reads, First, other, Persistence>>

\* The main window as it is built, with the load cell array as its class
\* leaves it (no attribute num_cells) or with the attribute present (two
\* cells), and with a pool of four or of eight threads (QThreadPool() takes
\* the machine's ideal thread count).
RecordingInit ==
  /\ CalculatorBuilt
  /\ \E array \in {NoNumCells, [num_cells |-> Some(2)]}, threads \in {4, 8} :
        AppWindowBuilt(array, threads)
  /\ cache = None
  /\ saved = None
  /\ loaded = None

RecordingNext ==
  \/ RecordChecked
  \/ PoolStarts
  \/ UpdaterPolls
  \/ UpdaterEmits
  \/ UpdaterWakes
  \/ CoordinatorPolls
  \/ CoordinatorEmits
  \/ EmitReadPulse
  \/ EmitReadPulseReturns
  \/ MassResult
  \/ RhtResult

RecordingSpec == RecordingInit /\ [][RecordingNext]_vars

\* ----------------------------------------------------------------------
\* The load cell cache (components/load_cell.py).  A text is the sequence of
\* its characters.  The values of m and b carry their Python type and their
\* str(): None, a float, or the str that load_array leaves.

\* str(n) of an int n >= 0.
str_int(n) ==
  LET digit == <<"0", "1", "2", "3", "4", "5", "6", "7", "8", "9">>
      digits[k \in 0..n] ==
        IF k < 10 THEN << digit[k + 1] >>
        ELSE Append(digits[k \div 10], digit[(k % 10) + 1])
  IN  digits[n]

\* int(text) of a str: ValueError unless the text is one or more digits.
int(text) ==
  LET digit == <<"0", "1", "2", "3", "4", "5", "6", "7", "8", "9">>
      value[k \in 0..Len(text)] ==
        IF k = 0 THEN 0
        ELSE 10 * value[k - 1] + (CHOOSE d \in 0..9 : digit[d + 1] = text[k])
  IN  IF text = << >> \/ \E k \in DOMAIN text : \A d \in 1..10 : digit[d] # text[k]
      THEN Err("ValueError")
      ELSE Ok(value[Len(text)])

\* text.split(sep): the pieces between the separators; a text that ends with
\* the separator has an empty last piece, and the empty text has one empty
\* piece.
split(text, sep) ==
  LET grown(before, c) ==
        IF c = sep THEN Append(before, << >>)
        ELSE [before EXCEPT ![Len(before)] = Append(@, c)]
      pieces[k \in 0..Len(text)] ==
        IF k = 0 THEN << << >> >> ELSE grown(pieces[k - 1], text[k])
  IN  pieces[Len(text)]

\* LoadCell.__init__: the chamber and the side are checked, the id is the
\* chamber followed by the side in upper case.
LoadCell(data_pin, clock_pin, gain, channel, chamber, side, m, b) ==
  LET upper == IF side = "l" THEN "L" ELSE IF side = "r" THEN "R" ELSE side
  IN  IF chamber \notin {1, 2, 3, 4} \/ upper \notin {"L", "R"}
      THEN Err("ValueError")
      ELSE Ok([data_pin |-> data_pin, clock_pin |-> clock_pin, gain |-> gain,
               channel |-> channel, id |-> Append(str_int(chamber), upper),
               m |-> m, b |-> b])

\* cells[chamber - 1].insert(index, cell): before the entry at `index`, or
\* at the end when the list is no longer than that.
Inserted(cells, chamber, index, cell) ==
  [cells EXCEPT ![chamber] =
     IF index >= Len(@) THEN Append(@, cell)
     ELSE SubSeq(@, 1, index) \o << cell >> \o SubSeq(@, index + 1, Len(@))]

\* LoadCellArray.__init__: four empty chambers; every cell of `list` is put
\* into the chamber of its id, at index 0 for side L and at index 1 otherwise.
LoadCellArray(list) ==
  LET cells[k \in 0..Len(list)] ==
        IF k = 0 THEN << << >>, << >>, << >>, << >> >>
        ELSE Inserted(cells[k - 1], int(<< list[k].id[1] >>).val,
                      IF list[k].id[2] = "L" THEN 0 ELSE 1, list[k])
  IN  cells[Len(list)]

\* The text save_array writes for one cell.
write_str(cell) ==
  str_int(cell.data_pin) \o << "," >> \o str_int(cell.clock_pin) \o << "," >>
    \o str_int(cell.gain) \o << "," >> \o cell.channel \o << "," >> \o cell.id
    \o << "," >> \o cell.m.repr \o << "," >> \o cell.b.repr \o << "|" >>

\* save_array: the text written to cache/load_cells.txt, chamber by chamber.
save_array(cells) ==
  LET all == cells[1] \o cells[2] \o cells[3] \o cells[4]
      text[k \in 0..Len(all)] ==
        IF k = 0 THEN << >> ELSE text[k - 1] \o write_str(all[k])
  IN  text[Len(all)]

\* load_array on the array `cells` with the file `file` (None: no file): the
\* cells of the array when the call ends and the exception that ends it
\* ("none" when it returns).  The pieces are handled in order; the cells of
\* the pieces before the one that raises stay in the array.
load_array(cells, file) ==
  IF file = None THEN [cells |-> cells, exception |-> "FileNotFoundError"]
  ELSE
    LET none == << "N", "o", "n", "e" >>
        value(text) == IF text # none THEN [type |-> "str", repr |-> text]
                       ELSE [type |-> "NoneType", repr |-> none]
        cell(f) ==
          IF int(f[1]).err # "none" THEN Err("ValueError")
          ELSE IF Len(f) < 2 THEN Err("IndexError")
          ELSE IF int(f[2]).err # "none" THEN Err("ValueError")
          ELSE IF Len(f) < 3 THEN Err("IndexError")
          ELSE IF int(f[3]).err # "none" THEN Err("ValueError")
          ELSE IF Len(f) < 5 \/ Len(f[5]) < 1 THEN Err("IndexError")
          ELSE IF int(<< f[5][1] >>).err # "none" THEN Err("ValueError")
          ELSE IF Len(f[5]) < 2 \/ Len(f) < 7 \/ int(<< f[5][1] >>).val > 4
               THEN Err("IndexError")
          ELSE LoadCell(int(f[1]).val, int(f[2]).val, int(f[3]).val, f[4],
                        int(<< f[5][1] >>).val, f[5][2], value(f[6]), value(f[7]))
        inserted(before, f, new) ==
          IF before.exception # "none" THEN before
          ELSE IF new.err # "none"
               THEN [cells |-> before.cells, exception |-> new.err]
               ELSE [cells |-> Inserted(before.cells, int(<< f[5][1] >>).val,
                                        IF f[5][2] = "L" THEN 0 ELSE 1, new.val),
                     exception |-> "none"]
        read(before, f) == inserted(before, f, cell(f))
        after(pieces) ==
          LET array[k \in 0..Len(pieces)] ==
                IF k = 0 THEN [cells |-> cells, exception |-> "none"]
                ELSE read(array[k - 1], split(pieces[k], ","))
          IN  array[Len(pieces)]
    IN  after(split(V(file), "|"))

\* The most cells of an array.
MaxCells == 2

\* The lists of at most MaxCells load cells on data pins 5 and 12 in
\* chambers 1 and 2, uncalibrated (m and b None) or with m = 2.5, b = 0.5.
ArrayInputs ==
  LET none == [type |-> "NoneType", repr |-> << "N", "o", "n", "e" >>]
      m == [type |-> "float", repr |-> << "2", ".", "5" >>]
      b == [type |-> "float", repr |-> << "0", ".", "5" >>]
      cell == { LoadCell(data_pin, 23, 128, << "A" >>, chamber, side, mb[1], mb[2]).val :
                  data_pin \in {5, 12}, chamber \in {1, 2}, side \in {"L", "R"},
                  mb \in {<<none, none>>, <<m, b>>} }
  IN  UNION { [1..n -> cell] : n \in 0..MaxCells }

\* save_array of the array `saved`.
SaveArray ==
  /\ saved # None
  /\ cache = None
  /\ loaded = None
  /\ cache' = Some(save_array(V(saved)))
  /\ UNCHANGED <<saved, loaded, First, other, Recording>>

\* LoadCellArray() followed by load_array().
LoadArray ==
  /\ loaded = None
  /\ loaded' = Some(load_array(LoadCellArray(<< >>), cache))
  /\ UNCHANGED <<cache, saved, First, other, Recording>>

\* An array of load cells has been built; nothing is saved or loaded yet.
PersistenceInit ==
  /\ CalculatorBuilt
  /\ AppWindowBuilt(NoNumCells, 4)
  /\ cache = None
  /\ loaded = None
  /\ \E list \in ArrayInputs : saved = Some(LoadCellArray(list))

PersistenceNext ==
  \/ SaveArray
  \/ LoadArray

PersistenceSpec == PersistenceInit /\ [][PersistenceNext]_vars

\* ----------------------------------------------------------------------
\* Properties.

\* The call of the constructor has got past check_definable / check_validity.
Constructed == pc # "idle"

Validated == pc \notin {"idle", "define_point", "check_validity"}

\* The independent facts of a set of keyword arguments: dry bulb, relative
\* humidity and specific volume count one each; humidity ratio, vapor
\* pressure, dew point and specific heat count one together; wet bulb and
\* enthalpy count one together.
IndependentFacts(kw) ==
  (IF kw.dry_bulb_temperature # None THEN 1 ELSE 0)
  + (IF kw.relative_humidity # None THEN 1 ELSE 0)
  + (IF kw.specific_volume # None THEN 1 ELSE 0)
  + (IF \E f \in {"humidity_ratio", "partial_pressure_vapor",
                  "dew_point_temperature", "specific_heat_capacity"} : kw[f] # None
     THEN 1 ELSE 0)
  + (IF kw.wet_bulb_temperature # None \/ kw.total_enthalpy # None THEN 1 ELSE 0)

Determinable(kw) == kw.total_pressure # None /\ IndependentFacts(kw) >= 2

\* C1: check_definable returns true exactly when total pressure is supplied
\* and at least two independent facts are, for every combination of supplied
\* and absent fields.
C1_check_definable_counts_independent_facts ==
  Constructed => (point_definable <=> Determinable(kwargs))

\* C1 witness: all four equivalent humidity properties and both wet bulb and
\* enthalpy are supplied with total pressure: seven fields, two facts.
C1_witness ==
  /\ pc = "define_point"
  /\ point_definable
  /\ Supplied(kwargs) =
       {"total_pressure", "humidity_ratio", "partial_pressure_vapor",
        "dew_point_temperature", "specific_heat_capacity",
        "wet_bulb_temperature", "total_enthalpy"}

\* C2: when the determinability check fails, construction fails with
\* PointNotDefinedException before the validator and the reductions run and
\* before any field is modified, also for an input that violates a validator
\* check.
C2_insufficient_data_comes_first ==
  (pc \notin {"idle", "define_point"} /\ ~point_definable) =>
    /\ pc \in {"raised", "shown"}
    /\ exc = PointNotDefinedException
    /\ ran = << "check_definable" >>
    /\ self = kwargs
    /\ psy_point = None

\* C2 witness: only relative_humidity = 1.3 and total pressure are supplied.
C2_witness ==
  /\ pc = "raised"
  /\ exc = PointNotDefinedException
  /\ Supplied(kwargs) = {"total_pressure", "relative_humidity"}
  /\ kwargs.relative_humidity = Some(1300000)

\* The object construction completed with: every field holds a number.
FullyPopulated(obj) == \A f \in Fields : obj[f] # None

\* C3: every object whose construction completes without raising has all
\* nine properties and total pressure non-None.
C3_completed_object_is_fully_populated ==
  /\ pc = "returned" => FullyPopulated(self)
  /\ psy_point # None => FullyPopulated(V(psy_point))

\* Only relative humidity and specific volume are supplied besides total
\* pressure.
OnlyRelativeHumidityAndSpecificVolume(kw) ==
  Supplied(kw) = {"total_pressure", "relative_humidity", "specific_volume"}

\* C4: when relative humidity and specific volume are the only facts
\* supplied besides total pressure (case 11), resolution ends in a failure
\* and no object is returned to the caller.
C4_case_11_returns_no_object ==
  OnlyRelativeHumidityAndSpecificVolume(kwargs) =>
    /\ pc # "returned"
    /\ psy_point = None
    /\ pc \in {"shown", "crashed"} => exc.kind \notin {"none", "TypeError"}

\* C5: a failure raised at any point of resolution leaves the constructor
\* unchanged, and the caller's variable is not bound to an object before or
\* after it.
C5_failure_delivers_no_object ==
  [][pc = "raised" =>
       /\ exc.kind # "none"
       /\ exc' = exc
       /\ psy_point = None
       /\ psy_point' = None
       /\ pc' \in {"shown", "crashed"}]_vars

\* C5 witness: a case handler has raised ValueError after it assigned fields,
\* the exception has left calculate_clicked and psy_point is still None.
C5_witness ==
  /\ pc = "crashed"
  /\ exc.kind = "ValueError"
  /\ ran = << "check_definable", "check_validity", "reduction", "case" >>
  /\ self # kwargs
  /\ psy_point = None

\* b is supplied and a, supplied too, is greater.
Above(kw, a, b) == kw[a] # None /\ kw[b] # None /\ V(kw[a]) > V(kw[b])

\* A supplied pair of temperatures violates dew point <= wet bulb <= dry bulb.
OrderingViolated(kw) ==
  \/ Above(kw, "wet_bulb_temperature", "dry_bulb_temperature")
  \/ Above(kw, "dew_point_temperature", "dry_bulb_temperature")
  \/ Above(kw, "dew_point_temperature", "wet_bulb_temperature")

\* The constructor has raised InvalidParamsException out of check_validity:
\* no reduction and no case handler has run and no field has changed.
RejectedByValidator ==
  /\ pc \in {"raised", "shown"}
  /\ exc.kind = "InvalidParamsException"
  /\ ran = << "check_definable", "check_validity" >>
  /\ branch = 0
  /\ self = kwargs
  /\ psy_point = None

\* C6: for a determinable input with a supplied pair of temperatures out of
\* order, resolution fails with InvalidParamsException and no case handler
\* runs.
C6_ordering_violation_is_rejected ==
  (Validated /\ point_definable /\ OrderingViolated(kwargs)) => RejectedByValidator

\* C6 witness: dew point 25 C above wet bulb 20 C, no dry bulb supplied.
C6_witness ==
  /\ pc = "raised"
  /\ RejectedByValidator
  /\ kwargs.dry_bulb_temperature = None
  /\ kwargs.wet_bulb_temperature = Some(20000000)
  /\ kwargs.dew_point_temperature = Some(25000000)

RelativeHumidityAboveOne(kw) ==
  kw.relative_humidity # None /\ V(kw.relative_humidity) > 1000000

\* C7: for a determinable input with relative humidity above 1, resolution
\* fails with InvalidParamsException; when no comparison of temperatures
\* fails before, it is the exception of the relative humidity check.
C7_relative_humidity_above_one_is_rejected ==
  (Validated /\ point_definable /\ RelativeHumidityAboveOne(kwargs)) =>
    /\ RejectedByValidator
    /\ ~OrderingViolated(kwargs) => exc = InvalidParamsException(Message(4), None)

\* C7 witness: wet bulb 20 C and relative humidity 1.3.
C7_witness ==
  /\ pc = "raised"
  /\ exc.kind = "InvalidParamsException"
  /\ Supplied(kwargs) = {"total_pressure", "wet_bulb_temperature", "relative_humidity"}
  /\ kwargs.relative_humidity = Some(1300000)

\* The supplied humidity ratio is above the saturation humidity ratio at the
\* supplied dry bulb temperature and total pressure.
HumidityRatioAboveSaturation(kw) ==
  /\ kw.dry_bulb_temperature # None /\ kw.humidity_ratio # None /\ kw.total_pressure # None
  /\ LET h_sat == find_saturation_humidity_ratio(V(kw.dry_bulb_temperature), V(kw.total_pressure))
     IN  h_sat.err = "none" /\ V(kw.humidity_ratio) > h_sat.val

\* The supplied vapor pressure is above the saturation pressure at the
\* supplied dry bulb temperature.
VaporPressureAboveSaturation(kw) ==
  /\ kw.dry_bulb_temperature # None /\ kw.partial_pressure_vapor # None
  /\ V(kw.partial_pressure_vapor) > find_p_saturation(V(kw.dry_bulb_temperature))

\* C8: for a determinable input with a dry bulb temperature, a humidity ratio
\* above the saturation humidity ratio or a vapor pressure above the
\* saturation pressure makes resolution fail with InvalidParamsException
\* before any reduction or case handler runs.
C8_supersaturated_input_is_rejected ==
  (/\ Validated /\ point_definable
   /\ HumidityRatioAboveSaturation(kwargs) \/ VaporPressureAboveSaturation(kwargs))
    => RejectedByValidator

\* C8 witness: dry bulb 20 C with a vapor pressure of 3000 Pa, above
\* p_sat(20 C) and below the total pressure; the humidity ratio is not
\* supplied.
C8_witness ==
  /\ pc = "raised"
  /\ RejectedByValidator
  /\ kwargs.dry_bulb_temperature = Some(20000000)
  /\ kwargs.partial_pressure_vapor = Some(3000000)
  /\ kwargs.humidity_ratio = None
  /\ exc.arg = Some(find_p_saturation(20000000))

\* A supplied value is strictly above its bound in one of the six checks.
StrictlyViolated(kw) ==
  \/ OrderingViolated(kw)
  \/ RelativeHumidityAboveOne(kw)
  \/ HumidityRatioAboveSaturation(kw)
  \/ VaporPressureAboveSaturation(kw)

\* C9: the bounds of the validator are inclusive: check_validity raises
\* InvalidParamsException only when a supplied value is strictly above its
\* bound, never for values equal to their bounds.
C9_bounds_are_inclusive ==
  (Validated /\ point_definable /\ ~StrictlyViolated(kwargs)) =>
    exc.kind # "InvalidParamsException"

\* C9 witness: check_validity has passed an input in which every one of the
\* six values equals its bound: wet bulb = dew point = dry bulb = 20 C,
\* relative humidity 1, the saturation humidity ratio and p_sat(20 C).
C9_witness ==
  /\ pc = "reduce"
  /\ exc = NoException
  /\ kwargs.wet_bulb_temperature = kwargs.dry_bulb_temperature
  /\ kwargs.dew_point_temperature = kwargs.dry_bulb_temperature
  /\ kwargs.dry_bulb_temperature = Some(20000000)
  /\ kwargs.relative_humidity = Some(1000000)
  /\ kwargs.total_pressure = Some(101325000)
  /\ kwargs.humidity_ratio = Some(find_saturation_humidity_ratio(20000000, 101325000).val)
  /\ kwargs.partial_pressure_vapor = Some(find_p_saturation(20000000))

\* The check of the validator that a set of keyword arguments fails first,
\* in the order of check_validity; 0 when it fails none.
FirstViolated(kw) ==
  CASE Above(kw, "wet_bulb_temperature", "dry_bulb_temperature") -> 1
    [] Above(kw, "dew_point_temperature", "dry_bulb_temperature") -> 2
    [] Above(kw, "dew_point_temperature", "wet_bulb_temperature") -> 3
    [] RelativeHumidityAboveOne(kw) -> 4
    [] HumidityRatioAboveSaturation(kw) -> 5
    [] VaporPressureAboveSaturation(kw) -> 6
    [] OTHER -> 0

\* The message of the exception is that of check i and of no other check.
MessageTells(i) ==
  i \in 1..6 /\ \A j \in 1..6 : Message(j) = exc.text <=> j = i

\* The bound the exception's message is formatted with, for the checks
\* whose bound is computed.
ComputedBound(kw, i) ==
  CASE i = 5 -> Some(PercentF(find_saturation_humidity_ratio(
                       V(kw.dry_bulb_temperature), V(kw.total_pressure)).val, 100000000))
    [] i = 6 -> Some(PercentF(find_p_saturation(V(kw.dry_bulb_temperature)), 1000))
    [] OTHER -> None

\* C10 as stated: each of the six violations raises InvalidParamsException
\* with a message distinct from those of the other five that carries the
\* value of the bound exceeded (the message of the relative humidity check
\* spells its bound out, 100%).
C10_every_message_carries_its_bound ==
  exc.kind = "InvalidParamsException" =>
    LET i == FirstViolated(kwargs)
    IN  MessageTells(i) /\ (exc.arg # None \/ i = 4)

\* C10: each of the six violations raises InvalidParamsException with a
\* message distinct from those of the other five; the messages of the
\* humidity ratio and vapor pressure checks carry the computed saturation
\* bound, the messages of the three comparisons of temperatures and of the
\* relative humidity check are fixed texts formatted with no value.
C10_messages_are_distinct_and_computed_bounds_are_carried ==
  exc.kind = "InvalidParamsException" =>
    LET i == FirstViolated(kwargs)
    IN  MessageTells(i) /\ exc.arg = ComputedBound(kwargs, i)

\* C10 witness: dew point 25 C above dry bulb 20 C: the message of the second
\* check, with no value.
C10_witness ==
  /\ pc = "raised"
  /\ exc = InvalidParamsException(Message(2), None)
  /\ kwargs.dry_bulb_temperature = Some(20000000)
  /\ kwargs.dew_point_temperature = Some(25000000)

\* dew point <= wet bulb <= dry bulb in an object that holds all three.
TemperaturesOrdered(obj) ==
  /\ V(obj.dew_point_temperature) <= V(obj.wet_bulb_temperature)
  /\ V(obj.wet_bulb_temperature) <= V(obj.dry_bulb_temperature)

\* C11: every object returned by one of the case handlers 1 to 10 satisfies
\* dew point <= wet bulb <= dry bulb.
C11_resolved_temperatures_are_ordered ==
  (pc = "returned" /\ branch \in 1..10) => TemperaturesOrdered(self)

\* 0 <= relative humidity <= 1 and 0 <= vapor pressure <= p_sat(dry bulb),
\* for the fields the object holds.
WithinPhysicalRange(obj) ==
  /\ obj.relative_humidity # None =>
       0 <= V(obj.relative_humidity) /\ V(obj.relative_humidity) <= 1000000
  /\ (obj.partial_pressure_vapor # None /\ obj.dry_bulb_temperature # None) =>
       /\ 0 <= V(obj.partial_pressure_vapor)
       /\ InTable(V(obj.dry_bulb_temperature))
       /\ V(obj.partial_pressure_vapor) <= find_p_saturation(V(obj.dry_bulb_temperature))

\* C12: every returned object has 0 <= relative humidity <= 1 and
\* 0 <= vapor pressure <= p_sat(dry bulb); a supplied negative relative
\* humidity never yields a returned object.
C12_resolved_object_is_within_physical_range ==
  pc = "returned" => WithinPhysicalRange(self)

\* The failures the engine defines and calculate_clicked catches.
TypedFailures == {"PointNotDefinedException", "InvalidParamsException"}

\* C13: every failure that ends a resolution is one of the typed failures
\* the caller handles; no exception of another kind leaves the constructor.
C13_every_failure_is_typed ==
  pc = "raised" => exc.kind \in TypedFailures


Running == solver.st.err = "again"

\* C14: every call of an iterative solver (find_dew_point_temperature,
\* find_dry_bulb_temperature_RH_enthalpy, find_wet_bulb_temperature)
\* eventually ends, by returning or by raising; no call iterates forever.
C14_every_solver_call_ends ==
  [](Running => <>(~Running))


\* The keyword arguments that hold the fields f and g of obj and its total
\* pressure.
PairFrom(obj, f, g) ==
  [h \in Fields |-> IF h \in {f, g, "total_pressure"} THEN obj[h] ELSE None]

\* How far a re-resolved field may lie from the first result: a hundred to a
\* thousand times the solvers' precision of 1e-5 (0.01 C, 1 Pa, 1e-5 kg/kg,
\* 0.001 of relative humidity, 0.01 kJ/kg, 1e-4 m3/kg, 1e-4 kJ/(kg K)).
RoundTripSlack(f) ==
  CASE f \in {"total_pressure", "partial_pressure_vapor"} -> 1000
    [] f \in {"humidity_ratio", "relative_humidity"} -> 1000
    [] OTHER -> 10000

Reproduces(r, obj) ==
  /\ r.err = "none"
  /\ \A f \in Fields :
        /\ r.self[f] # None
        /\ Abs(V(r.self[f]) - V(obj[f])) <= RoundTripSlack(f)

\* C15: for every fully resolved object, constructing a new object from the
\* same total pressure and any other resolvable pair of its fields succeeds
\* and reproduces every field of the first result.
C15_round_trip_reproduces_the_result ==
  (pc = "returned" /\ FullyPopulated(self)) =>
     \A f, g \in Fields \ {"total_pressure"} :
        ( /\ f # g
          /\ {f, g} # Supplied(kwargs) \ {"total_pressure"}
          /\ check_definable(PairFrom(self, f, g)) )
        => Reproduces(PsychrometricProperties(PairFrom(self, f, g)), self)


\* The exception a construction ended with ("none" when it returned).
Raised == IF pc = "raised" THEN exc.kind ELSE "none"

\* The construction ended as the constructor evaluated alone on kw ends.
SameAsAlone(kw, obj, err) ==
  /\ PsychrometricProperties(kw).err = err
  /\ PsychrometricProperties(kw).self = obj

\* C16: resolution is stateless.  The module-level dict
\* psychrometric_properties is never written, and each of two constructions
\* interleaved in any order ends with the object and the exception that the
\* constructor gives for its own keyword arguments when run alone.
C16_resolution_is_stateless ==
  /\ psychrometric_properties = NoKwargs
  /\ pc \in {"returned", "raised"} => SameAsAlone(kwargs, self, Raised)
  /\ other.pc \in {"returned", "raised"} => SameAsAlone(other.kwargs, other.self, other.err)

\* Two constructions on different arguments are in progress at once: the
\* second has returned its fully populated object while the first, past its
\* case reductions, has not yet run its branch.
C16_witness ==
  /\ pc = "dispatch"
  /\ other.pc = "returned"
  /\ other.kwargs # kwargs
  /\ FullyPopulated(other.self)


\* The steps of a construction in the order the code runs them.
StepOrder == << "check_definable", "check_validity", "reduction", "case" >>

\* C17: check_validity runs after the determinability check and before
\* every case reduction; when it runs no field has been assigned by the
\* engine, and its verdict is the verdict on the caller's values: a value
\* derived by a reduction is never passed through the validator.
C17_validator_sees_only_supplied_values ==
  /\ \A i \in DOMAIN ran : ran[i] = StepOrder[i]
  /\ pc = "check_validity" => (point_definable /\ self = kwargs)
  /\ (pc = "raised" /\ exc.kind = "InvalidParamsException") =>
        (exc = check_validity(kwargs) /\ self = kwargs)
  /\ pc \in {"reduce", "dispatch", "returned", "looping"} =>
        check_validity(kwargs) = NoException

\* A reduction has derived a humidity ratio (from the specific heat) that
\* the validator would reject, and the validator has let the input through.
C17_witness ==
  /\ pc = "dispatch"
  /\ kwargs.humidity_ratio = None
  /\ kwargs.specific_heat_capacity # None
  /\ self.humidity_ratio # None
  /\ HumidityRatioAboveSaturation(self)
  /\ check_validity(self).kind = "InvalidParamsException"


\* The pair conditions that hold once the case reductions have run on kw.
PairsAfterReduction(kw) == KnownPairs(RunReductions(kw, 1).self)

\* C18 as stated: after case reduction exactly one of the eleven known-pair
\* conditions holds.
C18_exactly_one_pair_is_known ==
  pc = "dispatch" => Cardinality(KnownPairs(self)) = 1

\* C18 as the code has it: after case reduction at least one of the eleven
\* conditions holds, several may hold at once, and the branch that runs is
\* the first of them in the order of the chain.
C18_first_known_pair_is_dispatched ==
  [][pc = "dispatch" =>
       /\ KnownPairs(self) # {}
       /\ branch' \in KnownPairs(self)
       /\ \A case \in KnownPairs(self) : branch' <= case]_vars

\* Wet bulb and humidity ratio alone were supplied; after reduction the
\* conditions of Case 5 and Case 9 both hold, and Case 5 has run.
C18_witness ==
  /\ pc = "returned"
  /\ Supplied(kwargs) = {"wet_bulb_temperature", "humidity_ratio", "total_pressure"}
  /\ {5, 9} \subseteq PairsAfterReduction(kwargs)
  /\ branch = 5


\* The construction is past the validator and has ended, or will never end.
EndedPastValidator ==
  /\ pc \in {"returned", "raised", "looping"}
  /\ Len(ran) >= 2
  /\ exc.kind # "InvalidParamsException"

\* C19: for every input that passes the determinability check and the
\* validator, exactly one case branch of define_point executes: one of the
\* eleven branches has run, and the chain has run once.
C19_exactly_one_branch_executes ==
  EndedPastValidator =>
     /\ branch \in 1..11
     /\ ran = StepOrder


\* The call of find_humidity_ratio_from_enthalpy_specific_vol has ended.
QuadraticEnded ==
  /\ solver.name = "find_humidity_ratio_from_enthalpy_specific_vol"
  /\ solver.st.err # "coefficients"

\* What the selection rule gives for the roots r: the root that is positive
\* when exactly one is, a failure otherwise.
UniquePositiveRoot(r) ==
  IF r.err # "none" THEN Err("ValueError")
  ELSE IF r.solution_1 > 0 /\ r.solution_2 <= 0 THEN Ok(r.solution_1)
  ELSE IF r.solution_2 > 0 /\ r.solution_1 <= 0 THEN Ok(r.solution_2)
  ELSE Err("ValueError")

\* C20: find_humidity_ratio_from_enthalpy_specific_vol returns a root only
\* when exactly one of the two roots is positive, and then that root, also
\* when the other root is exactly 0; when both roots are positive, neither
\* is, or no real root exists, it fails and returns no value.
C20_unique_positive_root_is_returned ==
  QuadraticEnded =>
     solver.st = UniquePositiveRoot(Solutions(solver.args[1], solver.args[2]))


\* One of the mutually derivable fields humidity ratio, vapor pressure, dew
\* point and specific heat was supplied.
MoistureSupplied(kw) ==
  \/ kw.humidity_ratio # None
  \/ kw.partial_pressure_vapor # None
  \/ kw.dew_point_temperature # None
  \/ kw.specific_heat_capacity # None

\* C21: after case reductions 1 to 4 and before dispatch, humidity_ratio is
\* non-None if and only if partial_pressure_vapor is, both are non-None
\* whenever humidity ratio, vapor pressure, dew point or specific heat was
\* supplied, and wet_bulb_temperature is non-None if and only if
\* total_enthalpy is.
C21_groups_are_folded_after_reduction ==
  pc = "dispatch" =>
     /\ (self.humidity_ratio # None) <=> (self.partial_pressure_vapor # None)
     /\ MoistureSupplied(kwargs) =>
           (self.humidity_ratio # None /\ self.partial_pressure_vapor # None)
     /\ (self.wet_bulb_temperature # None) <=> (self.total_enthalpy # None)

\* The reductions have folded a supplied humidity ratio onto the vapor
\* pressure and a supplied wet bulb temperature onto the enthalpy.
C21_witness ==
  /\ pc = "dispatch"
  /\ Supplied(kwargs) = {"humidity_ratio", "wet_bulb_temperature", "total_pressure"}
  /\ self.partial_pressure_vapor # None
  /\ self.total_enthalpy # None


\* The step the running solver computes from the trial temperature t.
StepFrom(t) ==
  CASE solver.name = "find_dew_point_temperature" ->
         t_dew_point_step(t, solver.args[1])
    [] solver.name = "find_dry_bulb_temperature_RH_enthalpy" ->
         t_dry_bulb_step(t, solver.args[1], solver.args[2], solver.args[3])
    [] OTHER ->
         t_wet_bulb_step(t, solver.args[1], solver.args[2])

\* |x_next - x_prev| of the step from the current trial temperature.
StepSize == Abs(StepFrom(solver.st.val).val - solver.st.val)

\* 10 ** (-precision), one degree being 10^6.
Tolerance == 1000000 \div TenPow(precision)

\* A solver is in its loop and the step from its trial temperature is a
\* number.
Stepping ==
  /\ solver.name \in {"find_dew_point_temperature", "find_dry_bulb_temperature_RH_enthalpy",
                      "find_wet_bulb_temperature"}
  /\ solver.st.err = "again"
  /\ StepFrom(solver.st.val).err = "none"

RelativeHumidityIsPressureRatio(obj) ==
  /\ InTable(V(obj.dry_bulb_temperature))
  /\ Abs(MulDiv(V(obj.relative_humidity), find_p_saturation(V(obj.dry_bulb_temperature)),
                1000000)
         - V(obj.partial_pressure_vapor)) <= 100

\* C23: every successfully resolved object satisfies relative_humidity *
\* p_sat(dry_bulb_temperature) = partial_pressure_vapor, in every case
\* handler including Case 8.
C23_relative_humidity_is_the_pressure_ratio ==
  (pc = "returned" /\ FullyPopulated(self)) => RelativeHumidityIsPressureRatio(self)


\* partial_pressure_vapor = 28.97 W P / (18.02 + 28.97 W) with the object's
\* own total pressure P, to 0.1 Pa.
VaporPressureAtOwnPressure(obj) ==
  /\ find_p_water_vapor_from_humidity_ratio(V(obj.humidity_ratio),
                                            V(obj.total_pressure)).err = "none"
  /\ Abs(find_p_water_vapor_from_humidity_ratio(V(obj.humidity_ratio),
                                                V(obj.total_pressure)).val
         - V(obj.partial_pressure_vapor)) <= 100

\* C24: every successfully resolved object has humidity_ratio and
\* partial_pressure_vapor related through its own total pressure; no case
\* handler derives a pressure-dependent field with the default 101325 Pa
\* when a different total pressure was supplied.
C24_vapor_pressure_uses_own_total_pressure ==
  (pc = "returned" /\ FullyPopulated(self)) => VaporPressureAtOwnPressure(self)


\* C25: the branch of Case 9 (humidity ratio and total enthalpy known) is
\* never executed: when its condition holds at the if/elif chain, reduction
\* 4a has set the wet bulb temperature, so the condition of one of Case 1 to
\* Case 5 holds as well, and that of Case 5 when the dry bulb is unknown.
C25_case_9_is_never_executed ==
  /\ branch # 9
  /\ (pc = "dispatch" /\ BranchCondition(9, self)) =>
        /\ self.wet_bulb_temperature # None
        /\ CaseOf(self) \in 1..5
        /\ self.dry_bulb_temperature = None => CaseOf(self) = 5

\* Humidity ratio and total enthalpy supplied without a temperature: the
\* branch of Case 5 has run.
C25_witness ==
  /\ Supplied(kwargs) \ {"total_pressure"} = {"humidity_ratio", "total_enthalpy"}
  /\ branch = 5
  /\ pc = "returned"


\* C26: resolution never assigns to a field the caller supplied: after the
\* case reductions and after the case handler, every field that was not None
\* at construction still has the supplied value.
C26_supplied_fields_are_left_unchanged ==
  pc \in {"dispatch", "returned"} =>
     \A f \in Supplied(kwargs) : self[f] = kwargs[f]


\* The keyword arguments kw with the boxes of `more` filled as well.
WithMore(kw, more) ==
  [f \in Fields |-> IF kw[f] = None /\ f \in more THEN Some(Typical[f]) ELSE kw[f]]

\* C27: determinability is monotone: when check_definable is true for the
\* supplied fields, it is true for every superset of them.
C27_determinability_is_monotone ==
  (pc = "define_point" /\ point_definable) =>
     \A more \in SUBSET (Fields \ Supplied(kwargs)) :
        check_definable(WithMore(kwargs, more))

\* Wet bulb and humidity ratio are supplied with total pressure: the point is
\* determinable, and enthalpy or vapor pressure in addition adds no fact.
C27_witness ==
  /\ pc = "define_point"
  /\ point_definable
  /\ Supplied(kwargs) = {"total_pressure", "wet_bulb_temperature", "humidity_ratio"}
  /\ check_definable(WithMore(kwargs, {"total_enthalpy", "partial_pressure_vapor"}))


\* The session a runnable of the pool belongs to: three are started at a time.
Session(i) == ((i - 1) \div 3) + 1

\* The run loop of the runnable i is being executed.
InRunLoop(i) == threadpool.workers[i].at \in {"loop", "take_measurement", "sleep"}

C30_saved_array_is_loaded_back ==
  (cache # None /\ loaded # None) =>
     /\ V(loaded).exception = "none"
     /\ V(loaded).cells = V(saved)

=============================================================================
